---- MODULE Spec2Model ----
(***************************************************************************)
(* Model of the Ulysses MCP server's command/response correlation core     *)
(* (src/index.ts as found in src/src/secure-temp.ts from line 234 on):     *)
(* executeUlyssesCommand, waitForCallback, checkRateLimit, the pending     *)
(* registry, the timers of the event loop and the callback files in /tmp.  *)
(***************************************************************************)
EXTENDS Integers, Sequences, FiniteSets, TLC

(***************************************************************************)
(* Bounds of the model                                                     *)
(***************************************************************************)
\* number of executeUlyssesCommand calls in a run
MaxRequests == 2
\* number of distinct values Math.random()'s suffix takes
MaxSuffix == 2
\* the clock stops at the deadlines of poll ticks during this many poll
\* intervals; after that it moves from one timeout deadline to the next
MaxPollTicks == 1
\* number of times another process puts something at a callback path
MaxEnvWrites == 1
\* the clock stops at the ends of rate-limit windows that end no later than
\* this many window widths (and as many milliseconds) after the start
MaxWindows == 2

(***************************************************************************)
(* Program constants                                                       *)
(***************************************************************************)
CALLBACK_TIMEOUT_MS == 30000
POLL_INTERVAL_MS == 100
RATE_LIMIT_WINDOW_MS == 60000
MAX_DESTRUCTIVE_OPS_PER_MINUTE == 10
\* the length ceiling of the text of ulysses_new_sheet
NEW_SHEET_TEXT_MAX == 1000000
\* the number of times ensureHelperAppRunning looks for the PID file
HELPER_MAX_ATTEMPTS == 50

\* the actions the model calls execute with: one that needs a callback, one
\* that needs none, one destructive one, one outside the whitelist
ModelActions == {"authorize", "new-sheet", "trash", "malicious-action"}

CALLBACK_ACTIONS ==
    {"authorize", "read-sheet", "get-item", "get-root-items", "get-version"}

\* a whitelist that lets every action pass
ALLOWED_ACTIONS_Everything == ModelActions

ALLOWED_ACTIONS ==
    {"new-sheet", "new-group", "insert", "attach-note", "attach-keywords",
     "attach-image", "open", "open-all", "open-recent", "open-favorites",
     "get-version", "authorize", "read-sheet", "get-item", "get-root-items",
     "move", "copy", "trash", "set-group-title", "set-sheet-title",
     "remove-keywords", "update-note", "remove-note"}

DESTRUCTIVE_ACTIONS ==
    {"trash", "move", "set-group-title", "set-sheet-title",
     "remove-keywords", "remove-note", "update-note"}

Req == 1..MaxRequests

NoId == <<>>

VARIABLES
    now,              \* Date.now(), in ms
    nextReq,          \* the next call of executeUlyssesCommand
    pc,               \* each call's position in executeUlyssesCommand
    reqAction,        \* each call's action argument
    callbackId,       \* each call's callbackId (NoId before it is made)
    timeoutActive,    \* each call's setTimeout handle is armed
    timeoutDue,       \* the time that handle is due
    pollActive,       \* each call's setInterval handle is armed
    pollDue,          \* the time of the next tick of that handle
    promise,          \* each call's callbackPromise
    result,           \* what each call of executeUlyssesCommand produced
    pendingCallbacks, \* the registry: callbackId -> the call whose handles it stores
    files,            \* what is at /tmp/ulysses-mcp-callback-<id>.json
    envWrites,        \* number of things other processes put at callback paths
    opened,           \* the URL each call handed to `open` (NoUrl before)
    rateLimitState,   \* action -> [count, resetTime]
    pidFile,          \* what /tmp/ulysses-mcp-helper.pid holds (NoPid when absent)
    alive,            \* the pids process.kill(pid, 0) finds alive
    starting,         \* helper apps that were spawned and have not come up yet
    spawned,          \* number of times a helper app was spawned
    attempts,         \* each call's attempts counter in ensureHelperAppRunning
    helperInstalled,  \* the helper app (or its Swift source) is on disk
    disk,             \* the file system SecureTempFileManager works on
    storeResult,      \* what the last call of SecureTempFileManager did
    requireDefined,   \* whether the build of secure-temp.ts has a global require
    params,           \* each call's params argument
    openedText,       \* the text of the URL each call built
    callbackServers,  \* HTTP variant: port -> the call whose server is stored
    serverOpen,       \* HTTP variant: the calls whose server has not been closed
    serverPort,       \* HTTP variant: each call's port (0 before it has one)
    validatorIn,      \* the arguments of a call of one of the validators
    validatorOut,     \* what that call produced
    acceptedLog       \* how many calls checkRateLimit let pass, by action and time

helperVars == <<pidFile, alive, starting, spawned, attempts, helperInstalled>>

storeVars == <<disk, storeResult, requireDefined>>

urlVars == <<params, openedText>>

httpVars == <<callbackServers, serverOpen, serverPort>>

validatorVars == <<validatorIn, validatorOut>>

burstVars == <<acceptedLog>>

vars == <<now, nextReq, pc, reqAction, callbackId, timeoutActive,
          timeoutDue, pollActive, pollDue, promise, result, pendingCallbacks,
          files, envWrites, opened, rateLimitState, helperVars, storeVars,
          urlVars, httpVars, validatorVars, burstVars>>


(***************************************************************************)
(* Values                                                                  *)
(***************************************************************************)
\* `${action}-${Date.now()}-${Math.random().toString(36).substr(2, 9)}`
MakeCallbackId(action, ts, rnd) == <<action, ts, rnd>>

\* the errors the code throws or rejects with
NoError == [mcp |-> FALSE, code |-> "none", msg |-> "none"]
McpError(code, msg) == [mcp |-> TRUE, code |-> code, msg |-> msg]
PlainError(msg) == [mcp |-> FALSE, code |-> "Error", msg |-> msg]

TimeoutError == McpError("InternalError", "Callback timeout for action")
ReadFailedError == McpError("InternalError", "Failed to read callback data")
InvalidActionError == McpError("InvalidParams", "Invalid action")
RateLimitError == McpError("InvalidRequest", "Rate limit exceeded")
\* the error of ensureHelperAppRunning as it would leave without the catch
\* block that wraps it
HelperStartErrorUnwrapped == PlainError("Helper app failed to start within timeout period")
HelperStartError == McpError("InternalError", "Failed to start helper app")
FallbackMessage == "Ulysses returned an error"

\* a promise: pending, or settled with a value or with an error
PendingPromise == [state |-> "pending", value |-> "none", error |-> NoError]
Resolved(v) == [state |-> "resolved", value |-> v, error |-> NoError]
Rejected(e) == [state |-> "rejected", value |-> "none", error |-> e]
NoPromise == [state |-> "null", value |-> "none", error |-> NoError]

\* resolve and reject of a settled promise do nothing
Settle(p, q) == IF p.state = "pending" THEN q ELSE p

\* what executeUlyssesCommand produced
NoResult == [kind |-> "none", value |-> "none", error |-> NoError]
Returned(v) == [kind |-> "returned", value |-> v, error |-> NoError]
Threw(e) == [kind |-> "threw", value |-> "none", error |-> e]

\* JSON.stringify(result, null, 2); JSON.stringify(undefined) is undefined
Stringify(d) == IF d = "undefined" THEN "undefined" ELSE "json " \o d

\* the catch block of executeUlyssesCommand
WrapError(e) ==
    IF e.mcp THEN e ELSE McpError("InternalError", "MCP error -32603: " \o e.msg)

(***************************************************************************)
(* The callback files.  The text of a file is modelled by what JSON.parse  *)
(* makes of it: parses is FALSE for text that is not JSON; data is the     *)
(* value of the data field ("undefined" when the field is missing).        *)
(***************************************************************************)
Content(parses, isError, data) ==
    [parses |-> parses, isError |-> isError, data |-> data]

Garbage == Content(FALSE, FALSE, "undefined")
OkPayload == Content(TRUE, FALSE, "{token}")
ErrWithMessage == Content(TRUE, TRUE, "{errorMessage}")
ErrNoMessage == Content(TRUE, TRUE, "{}")
ErrNoData == Content(TRUE, TRUE, "undefined")

\* response.data.errorMessage
ErrorMessageOf(data) == IF data = "{errorMessage}" THEN "User denied" ELSE "undefined"

\* kind: a regular file, a symbolic link (target: whether what it points to
\* exists; content: the text of what it points to) or a directory
RegularFile(c) == [kind |-> "file", target |-> TRUE, content |-> c]
Symlink(t, c) == [kind |-> "symlink", target |-> t, content |-> c]
Directory == [kind |-> "dir", target |-> TRUE, content |-> Garbage]

\* what another process (the helper app, or anyone who can write to /tmp)
\* may put at a callback path
EnvFiles ==
    {RegularFile(c) : c \in {OkPayload, ErrWithMessage, ErrNoMessage, ErrNoData, Garbage}}
      \cup {Symlink(TRUE, OkPayload), Symlink(FALSE, Garbage), Directory}

\* fs.existsSync follows symbolic links
ExistsSync(fs, id) ==
    /\ id \in DOMAIN fs
    /\ (fs[id].kind = "symlink" => fs[id].target)

\* fs.readFileSync follows symbolic links and throws on a directory
ReadThrows(fs, id) == fs[id].kind = "dir"

\* fs.unlinkSync removes a file or a link and throws on a directory
UnlinkThrows(fs, id) == id \notin DOMAIN fs \/ fs[id].kind = "dir"

UnlinkSync(fs, id) ==
    IF UnlinkThrows(fs, id) THEN fs ELSE [x \in DOMAIN fs \ {id} |-> fs[x]]

\* Map.delete
MapDelete(m, k) == [x \in DOMAIN m \ {k} |-> m[x]]

\* Map.set
MapSet(m, k, v) == [x \in DOMAIN m \cup {k} |-> IF x = k THEN v ELSE m[x]]

EmptyMap == [x \in {} |-> 0]


(***************************************************************************)
(* checkRateLimit                                                          *)
(***************************************************************************)
\* a window that is over as soon as it has begun
RateLimitAlwaysExpired(rl, action, t) == TRUE

\* a window that never ends
RateLimitNeverExpires(rl, action, t) == action \notin DOMAIN rl

RateLimitExpired(rl, action, t) == action \notin DOMAIN rl \/ t > rl[action].resetTime

\* a check that never refuses
RateLimitNeverThrows(rl, action, t) == FALSE

RateLimitThrows(rl, action, t) ==
    /\ action \in DESTRUCTIVE_ACTIONS
    /\ ~RateLimitExpired(rl, action, t)
    /\ rl[action].count >= MAX_DESTRUCTIVE_OPS_PER_MINUTE

\* a check whose fresh window starts with count 0
checkRateLimitFromZero(rl, action, t) ==
    IF action \notin DESTRUCTIVE_ACTIONS THEN rl
    ELSE IF RateLimitExpired(rl, action, t)
         THEN MapSet(rl, action, [count |-> 0, resetTime |-> t + RATE_LIMIT_WINDOW_MS])
    ELSE IF rl[action].count >= MAX_DESTRUCTIVE_OPS_PER_MINUTE THEN rl
    ELSE MapSet(rl, action, [count |-> rl[action].count + 1,
                             resetTime |-> rl[action].resetTime])

\* a check that counts the calls it refuses
checkRateLimitCountsRefused(rl, action, t) ==
    IF action \notin DESTRUCTIVE_ACTIONS THEN rl
    ELSE IF RateLimitExpired(rl, action, t)
         THEN MapSet(rl, action, [count |-> 1, resetTime |-> t + RATE_LIMIT_WINDOW_MS])
    ELSE MapSet(rl, action, [count |-> rl[action].count + 1,
                             resetTime |-> rl[action].resetTime])

\* a check that counts every action
checkRateLimitEveryAction(rl, action, t) ==
    IF RateLimitExpired(rl, action, t)
    THEN MapSet(rl, action, [count |-> 1, resetTime |-> t + RATE_LIMIT_WINDOW_MS])
    ELSE IF rl[action].count >= MAX_DESTRUCTIVE_OPS_PER_MINUTE THEN rl
    ELSE MapSet(rl, action, [count |-> rl[action].count + 1,
                             resetTime |-> rl[action].resetTime])

\* the rate-limit state checkRateLimit leaves, whether it returns or throws
checkRateLimit(rl, action, t) ==
    IF action \notin DESTRUCTIVE_ACTIONS THEN rl
    ELSE IF RateLimitExpired(rl, action, t)
         THEN MapSet(rl, action, [count |-> 1, resetTime |-> t + RATE_LIMIT_WINDOW_MS])
    ELSE IF rl[action].count >= MAX_DESTRUCTIVE_OPS_PER_MINUTE THEN rl
    ELSE MapSet(rl, action, [count |-> rl[action].count + 1,
                             resetTime |-> rl[action].resetTime])

(***************************************************************************)
(* executeUlyssesCommand                                                   *)
(***************************************************************************)
\* the URL: the action and the callbackId carried by x-success and x-error
\* (NoId when the URL has neither)
\* a URL that always carries callback addresses
UrlAlwaysAddressed(action, id) ==
    [action |-> action, xSuccess |-> <<action, 0, 0>>, xError |-> <<action, 0, 0>>]

Url(action, id) == [action |-> action, xSuccess |-> id, xError |-> id]
NoUrl == [action |-> "none", xSuccess |-> NoId, xError |-> NoId]

\* A text is the sequence of its pieces; the characters encodeURIComponent
\* escapes are pieces of their own.
EncodeChar(c) ==
    CASE c = ":" -> "%3A"
      [] c = "/" -> "%2F"
      [] c = "?" -> "%3F"
      [] c = "=" -> "%3D"
      [] c = "&" -> "%26"
      [] c = " " -> "%20"
      [] c = "%" -> "%25"
      [] OTHER -> c

\* an encodeParam that hands the value on as it is
encodeParamRaw(value) == value

\* encodeURIComponent
encodeParam(value) == [i \in 1..Len(value) |-> EncodeChar(value[i])]

\* `${action}-${Date.now()}-${Math.random().toString(36).substr(2, 9)}`
IdText(id) == <<id[1], "-", ToString(id[2]), "-", ToString(id[3])>>

\* `ulysses-mcp-callback://x-success?callbackId=${callbackId}`, and the
\* same with x-error
CallbackAddress(kind, id) ==
    <<"ulysses-mcp-callback", ":", "/", "/", kind, "?", "callbackId", "=">>
        \o IdText(id)

\* Object.entries(params).map(...).join("&"); ps is the sequence of the
\* entries, each a pair of a key and a value
RECURSIVE ParamString(_)
ParamString(ps) ==
    IF ps = <<>> THEN <<>>
    ELSE LET entry == <<ps[1][1], "=">> \o encodeParam(ps[1][2])
             rest == ParamString(Tail(ps))
         IN IF rest = <<>> THEN entry ELSE entry \o <<"&">> \o rest

\* the url of executeUlyssesCommand
UrlText(action, id, ps) ==
    LET paramString == ParamString(ps)
    IN IF action \in CALLBACK_ACTIONS
       THEN <<"ulysses://x-callback-url/", action, "?", "x-success", "=">>
               \o encodeParam(CallbackAddress("x-success", id))
               \o <<"&", "x-error", "=">>
               \o encodeParam(CallbackAddress("x-error", id))
               \o (IF paramString # <<>> THEN <<"&">> \o paramString ELSE <<>>)
       ELSE <<"ulysses://x-callback-url/", action>>
               \o (IF paramString # <<>> THEN <<"?">> \o paramString ELSE <<>>)

\* what `await callbackPromise` and the rest of the function make of a
\* settled promise
Completion(p) ==
    IF p.state = "resolved" THEN Returned(Stringify(p.value))
    ELSE Threw(WrapError(p.error))

\* the call's continuation runs as soon as the promise it awaits settles
Deliver(r, p) ==
    IF pc[r] = "awaiting" /\ p.state # "pending"
    THEN /\ pc' = [pc EXCEPT ![r] = "done"]
         /\ result' = [result EXCEPT ![r] = Completion(p)]
    ELSE UNCHANGED <<pc, result>>

\* the call up to its first await
ExecuteStart(action) ==
    /\ nextReq <= MaxRequests
    /\ nextReq' = nextReq + 1
    /\ reqAction' = [reqAction EXCEPT ![nextReq] = action]
    /\ IF action \notin ALLOWED_ACTIONS
       THEN /\ pc' = [pc EXCEPT ![nextReq] = "done"]
            /\ result' = [result EXCEPT ![nextReq] = Threw(InvalidActionError)]
            /\ UNCHANGED <<rateLimitState, opened, openedText>>
       ELSE IF RateLimitThrows(rateLimitState, action, now)
       THEN /\ pc' = [pc EXCEPT ![nextReq] = "done"]
            /\ result' = [result EXCEPT ![nextReq] = Threw(RateLimitError)]
            /\ rateLimitState' = checkRateLimit(rateLimitState, action, now)
            /\ UNCHANGED <<opened, openedText>>
       ELSE /\ rateLimitState' = checkRateLimit(rateLimitState, action, now)
            /\ UNCHANGED result
            /\ IF action \in CALLBACK_ACTIONS
               THEN /\ pc' = [pc EXCEPT ![nextReq] = "helper"]
                    /\ UNCHANGED <<opened, openedText>>
               ELSE /\ pc' = [pc EXCEPT ![nextReq] = "opening"]
                    /\ opened' = [opened EXCEPT ![nextReq] = Url(action, NoId)]
                    /\ openedText' = [openedText EXCEPT ![nextReq] =
                                         UrlText(action, NoId, params[nextReq])]
    /\ UNCHANGED <<now, callbackId, timeoutActive, timeoutDue,
                   pollActive, pollDue, promise, pendingCallbacks, files,
                   envWrites, params>>
    /\ UNCHANGED <<helperVars, storeVars, httpVars, validatorVars, burstVars>>

\* ensureHelperAppRunning threw
HelperFailed(r) ==
    /\ pc[r] = "helper"
    /\ pc' = [pc EXCEPT ![r] = "done"]
    /\ result' = [result EXCEPT ![r] = Threw(HelperStartError)]
    /\ UNCHANGED <<now, nextReq, reqAction, callbackId, timeoutActive,
                   timeoutDue, pollActive, pollDue, promise, pendingCallbacks,
                   files, envWrites, opened, rateLimitState>>
    /\ UNCHANGED <<helperVars, storeVars, urlVars, httpVars, validatorVars, burstVars>>

\* a waitForCallback that leaves the registration for later
RegisterPendingLater(reg, id, r) == reg

\* pendingCallbacks.set(callbackId, { resolve, reject, timeout, pollInterval })
RegisterPending(reg, id, r) == MapSet(reg, id, r)

\* ensureHelperAppRunning returned: the callbackId is made, waitForCallback
\* arms the timeout and the poll and registers them, the URL is built and
\* handed to `open`
Register(r, rnd) ==
    /\ pc[r] = "helper"
    /\ LET id == MakeCallbackId(reqAction[r], now, rnd) IN
        /\ callbackId' = [callbackId EXCEPT ![r] = id]
        /\ promise' = [promise EXCEPT ![r] = PendingPromise]
        /\ timeoutActive' = [timeoutActive EXCEPT ![r] = TRUE]
        /\ timeoutDue' = [timeoutDue EXCEPT ![r] = now + CALLBACK_TIMEOUT_MS]
        /\ pollActive' = [pollActive EXCEPT ![r] = TRUE]
        /\ pollDue' = [pollDue EXCEPT ![r] = now + POLL_INTERVAL_MS]
        /\ pendingCallbacks' = RegisterPending(pendingCallbacks, id, r)
        /\ opened' = [opened EXCEPT ![r] = Url(reqAction[r], id)]
        /\ openedText' = [openedText EXCEPT ![r] = UrlText(reqAction[r], id, params[r])]
    /\ pc' = [pc EXCEPT ![r] = "opening"]
    /\ UNCHANGED <<now, nextReq, reqAction, result, files, envWrites,
                   rateLimitState, params>>
    /\ UNCHANGED <<helperVars, storeVars, httpVars, validatorVars, burstVars>>

\* `open` exited with status 0
OpenSucceeded(r) ==
    /\ pc[r] = "opening"
    /\ IF promise[r].state = "null"
       THEN /\ pc' = [pc EXCEPT ![r] = "done"]
            /\ result' = [result EXCEPT ![r] = Returned("Successfully executed")]
       ELSE IF promise[r].state = "pending"
       THEN /\ pc' = [pc EXCEPT ![r] = "awaiting"]
            /\ UNCHANGED result
       ELSE /\ pc' = [pc EXCEPT ![r] = "done"]
            /\ result' = [result EXCEPT ![r] = Completion(promise[r])]
    /\ UNCHANGED <<now, nextReq, reqAction, callbackId, timeoutActive,
                   timeoutDue, pollActive, pollDue, promise, pendingCallbacks,
                   files, envWrites, opened, rateLimitState>>
    /\ UNCHANGED <<helperVars, storeVars, urlVars, httpVars, validatorVars, burstVars>>

\* a catch block that gives the slot of the failed call back
RateLimitGivenBack(rl, action) ==
    IF action \in DOMAIN rl
    THEN MapSet(rl, action, [count |-> rl[action].count - 1,
                             resetTime |-> rl[action].resetTime])
    ELSE rl

\* the catch block of executeUlyssesCommand has no statement that touches
\* rateLimitState
RateLimitAfterFailure(rl, action) == rl

\* `open` failed: the catch block wraps the error; nothing else is done
OpenFailed(r) ==
    /\ pc[r] = "opening"
    /\ pc' = [pc EXCEPT ![r] = "done"]
    /\ result' = [result EXCEPT ![r] = Threw(WrapError(PlainError("Command failed: open")))]
    /\ rateLimitState' = RateLimitAfterFailure(rateLimitState, reqAction[r])
    /\ UNCHANGED <<now, nextReq, reqAction, callbackId, timeoutActive,
                   timeoutDue, pollActive, pollDue, promise, pendingCallbacks,
                   files, envWrites, opened>>
    /\ UNCHANGED <<helperVars, storeVars, urlVars, httpVars, validatorVars, burstVars>>


(***************************************************************************)
(* waitForCallback: the poll tick and the timeout                          *)
(***************************************************************************)
\* the poll tick found something it cannot read or cannot parse
PollReadFails(fs, id) == ReadThrows(fs, id) \/ ~fs[id].content.parses

\* what the poll tick does to the promise on a parsed response; reading
\* response.data.errorMessage of a response without data throws, and the
\* catch block rejects
PollSettlement(c) ==
    IF c.isError
    THEN IF c.data = "undefined" THEN Rejected(ReadFailedError)
         ELSE IF ErrorMessageOf(c.data) = "undefined"
              THEN Rejected(PlainError(FallbackMessage))
         ELSE Rejected(PlainError(ErrorMessageOf(c.data)))
    ELSE Resolved(c.data)

\* a poll tick that forgets to unlink what it has read
PollFilesKept(fs, id) == fs

\* the callback files after a poll tick that found something: the file is
\* unlinked only after it was read and parsed
PollFiles(fs, id) == IF PollReadFails(fs, id) THEN fs ELSE UnlinkSync(fs, id)

\* the callback files after the timeout fired; a failing unlink is ignored
TimeoutFiles(fs, id) == IF ExistsSync(fs, id) THEN UnlinkSync(fs, id) ELSE fs

\* a timeout that cleans up and forgets to reject
TimeoutRejectForgotten(p) == p

\* the timeout rejects the promise
TimeoutReject(p) == Settle(p, Rejected(TimeoutError))

\* clearInterval in the timeout: the handle stored in the registry under
\* the callbackId is cleared, if there is an entry
TimeoutPollActive(pa, reg, id) ==
    IF id \in DOMAIN reg THEN [pa EXCEPT ![reg[id]] = FALSE] ELSE pa

\* the callback of setInterval
PollTick(r) ==
    /\ pollActive[r]
    /\ now >= pollDue[r]
    /\ LET id == callbackId[r] IN
        IF ~ExistsSync(files, id)
        THEN /\ pollDue' = [pollDue EXCEPT ![r] = now + POLL_INTERVAL_MS]
             /\ UNCHANGED <<pc, result, timeoutActive, pollActive, promise,
                            pendingCallbacks, files>>
        ELSE LET q == IF PollReadFails(files, id) THEN Rejected(ReadFailedError)
                      ELSE PollSettlement(files[id].content)
                 p == Settle(promise[r], q)
             IN /\ timeoutActive' = [timeoutActive EXCEPT ![r] = FALSE]
                /\ pollActive' = [pollActive EXCEPT ![r] = FALSE]
                /\ pendingCallbacks' = MapDelete(pendingCallbacks, id)
                /\ files' = PollFiles(files, id)
                /\ promise' = [promise EXCEPT ![r] = p]
                /\ Deliver(r, p)
                /\ UNCHANGED pollDue
    /\ UNCHANGED <<now, nextReq, reqAction, callbackId, timeoutDue,
                   envWrites, opened, rateLimitState>>
    /\ UNCHANGED <<helperVars, storeVars, urlVars, httpVars, validatorVars, burstVars>>

\* the callback of setTimeout
TimeoutFire(r) ==
    /\ timeoutActive[r]
    /\ now >= timeoutDue[r]
    /\ LET id == callbackId[r]
           p == TimeoutReject(promise[r])
       IN /\ timeoutActive' = [timeoutActive EXCEPT ![r] = FALSE]
          /\ pollActive' = TimeoutPollActive(pollActive, pendingCallbacks, id)
          /\ pendingCallbacks' = MapDelete(pendingCallbacks, id)
          /\ files' = TimeoutFiles(files, id)
          /\ promise' = [promise EXCEPT ![r] = p]
          /\ Deliver(r, p)
    /\ UNCHANGED <<now, nextReq, reqAction, callbackId, timeoutDue,
                   pollDue, envWrites, opened, rateLimitState>>
    /\ UNCHANGED <<helperVars, storeVars, urlVars, httpVars, validatorVars, burstVars>>

(***************************************************************************)
(* The environment: the clock and the other processes                      *)
(***************************************************************************)
\* the last millisecond of each rate-limit window and the first one after it
WindowDeadlines ==
    {d \in UNION {{rateLimitState[a].resetTime, rateLimitState[a].resetTime + 1} :
                       a \in DOMAIN rateLimitState} :
        d <= MaxWindows * (RATE_LIMIT_WINDOW_MS + 1)}

\* the times at which the clock stops: the deadlines of the armed timeouts
\* and, early on, of the armed polls, and the ends of the rate-limit windows
Deadlines ==
    {timeoutDue[r] : r \in {x \in Req : timeoutActive[x]}}
      \cup {pollDue[r] : r \in {x \in Req : pollActive[x]
                                   /\ pollDue[x] <= MaxPollTicks * POLL_INTERVAL_MS}}
      \cup WindowDeadlines

\* time passes up to a deadline; a timer that is due fires at some later
\* step, so a callback may run late and two callbacks that are due may run
\* in either order
Advance(t) ==
    /\ t \in Deadlines
    /\ t > now
    /\ now' = t
    /\ UNCHANGED <<nextReq, pc, reqAction, callbackId, timeoutActive, timeoutDue,
                   pollActive, pollDue, promise, result, pendingCallbacks, files,
                   envWrites, opened, rateLimitState>>
    /\ UNCHANGED <<helperVars, storeVars, urlVars, httpVars, validatorVars, burstVars>>

\* the callbackIds that have been handed out
AllocatedIds == {callbackId[r] : r \in Req} \ {NoId}

\* another process puts something at the callback path of a callbackId
EnvWrite(id, f) ==
    /\ envWrites < MaxEnvWrites
    /\ id \in AllocatedIds
    /\ f \in EnvFiles
    /\ envWrites' = envWrites + 1
    /\ files' = MapSet(files, id, f)
    /\ UNCHANGED <<now, nextReq, pc, reqAction, callbackId,
                   timeoutActive, timeoutDue, pollActive, pollDue, promise,
                   result, pendingCallbacks, opened, rateLimitState>>
    /\ UNCHANGED <<helperVars, storeVars, urlVars, httpVars, validatorVars, burstVars>>

(***************************************************************************)
(* The helper app and the secure store before anything has used them       *)
(***************************************************************************)
\* pidFile is the number parseInt makes of the PID file; these two stand for
\* no PID file and (below) for a PID file that holds no number
NoPid == 0 - 1

\* no PID file, no helper app, an installed helper
HelperAtRest ==
    /\ pidFile = NoPid
    /\ alive = {}
    /\ starting = 0
    /\ spawned = 0
    /\ attempts = [r \in Req |-> 0]
    /\ helperInstalled = TRUE

\* op: the method that ran; path: its argument; outcome: "returned" or
\* "threw"; value: what it returned; warned: whether it called console.warn;
\* logged: the entries it reported with console.log
NoStoreResult ==
    [op |-> "none", path |-> <<>>, outcome |-> "none", value |-> "none",
     warned |-> FALSE, logged |-> {}]

\* an empty disk; index.ts is an ES module, which has no global require
StoreAtRest ==
    /\ disk = EmptyMap
    /\ storeResult = NoStoreResult
    /\ requireDefined = FALSE

\* no URL has been built
NoText == <<>>

\* no params: the default of the params argument
NoParams == <<>>

\* every call is made without params
UrlAtRest ==
    /\ params = [r \in Req |-> NoParams]
    /\ openedText = [r \in Req |-> NoText]

\* the HTTP variant has made no server
HttpAtRest ==
    /\ callbackServers = EmptyMap
    /\ serverOpen = {}
    /\ serverPort = [r \in Req |-> 0]

\* no validator is looked at on its own
NoValidatorCall == [fn |-> "none"]

ValidatorAtRest ==
    /\ validatorIn = NoValidatorCall
    /\ validatorOut = NoValidatorCall

\* no call of checkRateLimit has been counted
BurstAtRest == acceptedLog = EmptyMap

(***************************************************************************)
(* The specification                                                       *)
(***************************************************************************)
Init ==
    /\ now = 0
    /\ nextReq = 1
    /\ pc = [r \in Req |-> "idle"]
    /\ reqAction = [r \in Req |-> "none"]
    /\ callbackId = [r \in Req |-> NoId]
    /\ timeoutActive = [r \in Req |-> FALSE]
    /\ timeoutDue = [r \in Req |-> 0]
    /\ pollActive = [r \in Req |-> FALSE]
    /\ pollDue = [r \in Req |-> 0]
    /\ promise = [r \in Req |-> NoPromise]
    /\ result = [r \in Req |-> NoResult]
    /\ pendingCallbacks = EmptyMap
    /\ files = EmptyMap
    /\ envWrites = 0
    /\ opened = [r \in Req |-> NoUrl]
    /\ rateLimitState = EmptyMap
    /\ HelperAtRest
    /\ StoreAtRest
    /\ UrlAtRest
    /\ HttpAtRest
    /\ ValidatorAtRest
    /\ BurstAtRest

Next ==
    \/ \E a \in ModelActions \cap CALLBACK_ACTIONS : ExecuteStart(a)
    \/ \E r \in Req : HelperFailed(r)
    \/ \E r \in Req, rnd \in 1..MaxSuffix : Register(r, rnd)
    \/ \E r \in Req : OpenSucceeded(r)
    \/ \E r \in Req : OpenFailed(r)
    \/ \E r \in Req : PollTick(r)
    \/ \E r \in Req : TimeoutFire(r)
    \/ \E t \in Deadlines : Advance(t)
    \/ \E r \in Req : \E f \in EnvFiles : EnvWrite(callbackId[r], f)

Spec == Init /\ [][Next]_vars


(***************************************************************************)
(* The commands that need no callback, called one after another or two at  *)
(* a time; a call whose outcome went back to the client makes room for the *)
(* next one.                                                               *)
(***************************************************************************)
\* the outcome of the last call started goes back to the client
Collect(r) ==
    /\ r = nextReq - 1
    /\ pc[r] = "done"
    /\ callbackId[r] = NoId
    /\ nextReq' = r
    /\ pc' = [pc EXCEPT ![r] = "idle"]
    /\ reqAction' = [reqAction EXCEPT ![r] = "none"]
    /\ result' = [result EXCEPT ![r] = NoResult]
    /\ opened' = [opened EXCEPT ![r] = NoUrl]
    /\ openedText' = [openedText EXCEPT ![r] = NoText]
    /\ UNCHANGED <<now, callbackId, timeoutActive, timeoutDue, pollActive,
                   pollDue, promise, pendingCallbacks, files, envWrites,
                   rateLimitState, params>>
    /\ UNCHANGED <<helperVars, storeVars, httpVars, validatorVars, burstVars>>

(***************************************************************************)
(* The tool handler.  A string argument is modelled by the length of what  *)
(* is left of it after trim() and by whether white space surrounds it; an  *)
(* argument of an enum field by its text.                                  *)
(***************************************************************************)
Undefined == [defined |-> FALSE, len |-> 0, padded |-> FALSE]
Str(len, padded) == [defined |-> TRUE, len |-> len, padded |-> padded]

\* args?.format may be missing, a listed value, an unlisted one, a listed
\* one in another case, or the empty string
NoEnum == "<undefined>"
FormatValues == {"markdown", "text", "html"}
FormatInputs == {NoEnum, "markdown", "Markdown", "pdf", ""}

\* if (args?.format): undefined and the empty string are falsy
Truthy(e) == e # NoEnum /\ e # ""

RequiredError(field) == McpError("InvalidParams", field \o " is required")
EmptyError(field) == McpError("InvalidParams", field \o " cannot be empty")
EnumError(field) == McpError("InvalidParams", field \o " must be one of")
LengthError(field) == McpError("InvalidParams", field \o " exceeds maximum length")
UnknownToolError == McpError("MethodNotFound", "Unknown tool")

\* validateRequired: the error it throws (NoError when it returns) and the
\* trimmed string it returns
validateRequiredError(v, field) ==
    IF ~v.defined THEN RequiredError(field)
    ELSE IF v.len = 0 THEN EmptyError(field)
    ELSE NoError

validateRequired(v) == Str(v.len, FALSE)

validateEnumError(e, allowed, field) ==
    IF e = NoEnum THEN NoError
    ELSE IF e \notin allowed THEN EnumError(field)
    ELSE NoError

validateLengthError(v, maxLength, field) ==
    IF v.len > maxLength THEN LengthError(field) ELSE NoError

\* the first of the errors that is one
FirstError(errors) ==
    IF \E i \in DOMAIN errors : errors[i] # NoError
    THEN errors[CHOOSE i \in DOMAIN errors :
                    /\ errors[i] # NoError
                    /\ \A j \in DOMAIN errors : j < i => errors[j] = NoError]
    ELSE NoError

ModelTools == {"ulysses_new_sheet", "ulysses_trash", "ulysses_unknown"}

StringInputs ==
    {Undefined} \cup {Str(n, p) : n \in {0, 1}, p \in BOOLEAN}

TextInputs ==
    StringInputs
      \cup {Str(n, p) : n \in {NEW_SHEET_TEXT_MAX, NEW_SHEET_TEXT_MAX + 1}, p \in BOOLEAN}

\* the arguments of a call of each tool
ToolArgs(tool) ==
    IF tool = "ulysses_new_sheet"
    THEN [text : TextInputs, format : FormatInputs, id : {Undefined},
          access_token : {Undefined}]
    ELSE IF tool = "ulysses_trash"
    THEN [text : {Undefined}, format : {NoEnum}, id : StringInputs,
          access_token : StringInputs]
    ELSE [text : {Undefined}, format : {NoEnum}, id : {Undefined},
          access_token : {Undefined}]

\* the action each tool hands to executeUlyssesCommand
ToolAction(tool) ==
    IF tool = "ulysses_new_sheet" THEN "new-sheet"
    ELSE IF tool = "ulysses_trash" THEN "trash"
    ELSE "none"

\* what the case of the tool throws before it calls executeUlyssesCommand
ToolError(tool, args) ==
    IF tool = "ulysses_new_sheet"
    THEN FirstError(<<validateRequiredError(args.text, "text"),
                      validateLengthError(validateRequired(args.text),
                                          NEW_SHEET_TEXT_MAX, "text"),
                      IF Truthy(args.format)
                      THEN validateEnumError(args.format, FormatValues, "format")
                      ELSE NoError>>)
    ELSE IF tool = "ulysses_trash"
    THEN FirstError(<<validateRequiredError(args.id, "id"),
                      validateRequiredError(args.access_token, "access_token")>>)
    ELSE UnknownToolError

\* the handler of CallToolRequestSchema up to the first await
CallTool(tool, args) ==
    IF ToolError(tool, args) # NoError
    THEN /\ nextReq <= MaxRequests
         /\ nextReq' = nextReq + 1
         /\ pc' = [pc EXCEPT ![nextReq] = "done"]
         /\ result' = [result EXCEPT ![nextReq] = Threw(ToolError(tool, args))]
         /\ UNCHANGED <<now, reqAction, callbackId, timeoutActive, timeoutDue,
                        pollActive, pollDue, promise, pendingCallbacks, files,
                        envWrites, opened, rateLimitState, helperVars, storeVars, urlVars, httpVars, validatorVars, burstVars>>
    ELSE ExecuteStart(ToolAction(tool))

ToolNext ==
    \/ \E tool \in ModelTools : \E args \in ToolArgs(tool) : CallTool(tool, args)
    \/ \E r \in Req : OpenSucceeded(r)
    \/ \E r \in Req : OpenFailed(r)
    \/ \E r \in Req : Collect(r)

ToolSpec == Init /\ [][ToolNext]_vars

CommandNext ==
    \/ \E a \in ModelActions \ CALLBACK_ACTIONS : ExecuteStart(a)
    \/ \E r \in Req : OpenSucceeded(r)
    \/ \E r \in Req : OpenFailed(r)
    \/ \E r \in Req : Collect(r)
    \/ \E t \in Deadlines : Advance(t)

\* the rate-limit state that earlier calls of another destructive action,
\* made at time 0, may have left: none, or a window used up
EarlierWindows ==
    {EmptyMap,
     MapSet(EmptyMap, "move", [count |-> MAX_DESTRUCTIVE_OPS_PER_MINUTE,
                               resetTime |-> RATE_LIMIT_WINDOW_MS])}

CommandInit ==
    /\ now = 0
    /\ nextReq = 1
    /\ pc = [r \in Req |-> "idle"]
    /\ reqAction = [r \in Req |-> "none"]
    /\ callbackId = [r \in Req |-> NoId]
    /\ timeoutActive = [r \in Req |-> FALSE]
    /\ timeoutDue = [r \in Req |-> 0]
    /\ pollActive = [r \in Req |-> FALSE]
    /\ pollDue = [r \in Req |-> 0]
    /\ promise = [r \in Req |-> NoPromise]
    /\ result = [r \in Req |-> NoResult]
    /\ pendingCallbacks = EmptyMap
    /\ files = EmptyMap
    /\ envWrites = 0
    /\ opened = [r \in Req |-> NoUrl]
    /\ rateLimitState \in EarlierWindows
    /\ HelperAtRest
    /\ StoreAtRest
    /\ UrlAtRest
    /\ HttpAtRest
    /\ ValidatorAtRest
    /\ BurstAtRest

CommandSpec == CommandInit /\ [][CommandNext]_vars

(***************************************************************************)
(* ensureHelperAppRunning.  A call of executeUlyssesCommand that needs a   *)
(* callback is at "helper" when it enters the function, at "helper-wait"   *)
(* while it sleeps in the wait loop and at "ready" when the function has   *)
(* returned.                                                               *)
(***************************************************************************)
\* parseInt of a PID file that holds no number
NaNPid == 0 - 2

\* the pid of a process that ran before the server looked
EarlierPid == 1

\* a probe that finds nothing alive
ProbeAlwaysFails(pid, al) == FALSE

\* process.kill(pid, 0) returns; it throws for a pid that is not alive and
\* for NaN
ProbeSucceeds(pid, al) == pid \in al

\* a wait loop that never sees the PID file
MarkerNeverObserved(pf) == FALSE

\* fs.existsSync(HELPER_PID_FILE)
MarkerObserved(pf) == pf # NoPid

\* the function up to its first await: the PID file is looked at, a stale
\* one is unlinked, the helper app is spawned and the wait loop looks for
\* the PID file for the first time
HelperCheck(r) ==
    /\ pc[r] = "helper"
    /\ IF MarkerObserved(pidFile) /\ ProbeSucceeds(pidFile, alive)
       THEN /\ pc' = [pc EXCEPT ![r] = "ready"]
            /\ UNCHANGED <<result, pidFile, starting, spawned>>
       ELSE /\ pidFile' = NoPid
            /\ IF helperInstalled
               THEN /\ spawned' = spawned + 1
                    /\ starting' = starting + 1
                    /\ pc' = [pc EXCEPT ![r] = "helper-wait"]
                    /\ UNCHANGED result
               ELSE /\ pc' = [pc EXCEPT ![r] = "done"]
                    /\ result' = [result EXCEPT ![r] = Threw(HelperStartError)]
                    /\ UNCHANGED <<starting, spawned>>
    /\ UNCHANGED <<now, nextReq, reqAction, callbackId, timeoutActive,
                   timeoutDue, pollActive, pollDue, promise, pendingCallbacks,
                   files, envWrites, opened, rateLimitState, alive, attempts,
                   helperInstalled, storeVars, urlVars, httpVars, validatorVars, burstVars>>

\* the sleep of the wait loop has ended: attempts++, and either the loop
\* looks for the PID file again or the budget is used up
HelperPoll(r) ==
    /\ pc[r] = "helper-wait"
    /\ attempts' = [attempts EXCEPT ![r] = attempts[r] + 1]
    /\ IF attempts[r] + 1 < HELPER_MAX_ATTEMPTS
       THEN /\ pc' = [pc EXCEPT ![r] =
                         IF MarkerObserved(pidFile) THEN "ready" ELSE "helper-wait"]
            /\ UNCHANGED result
       ELSE /\ pc' = [pc EXCEPT ![r] = "done"]
            /\ result' = [result EXCEPT ![r] = Threw(HelperStartError)]
    /\ UNCHANGED <<now, nextReq, reqAction, callbackId, timeoutActive,
                   timeoutDue, pollActive, pollDue, promise, pendingCallbacks,
                   files, envWrites, opened, rateLimitState, pidFile, alive,
                   starting, spawned, helperInstalled, storeVars, urlVars, httpVars, validatorVars, burstVars>>

\* a helper app that was spawned comes up as a new process and writes its
\* pid to the PID file
ReceiverComesUp ==
    /\ starting > 0
    /\ starting' = starting - 1
    /\ LET pid == EarlierPid + 1 + (spawned - starting) IN
        /\ alive' = alive \cup {pid}
        /\ pidFile' = pid
    /\ UNCHANGED <<now, nextReq, pc, reqAction, callbackId, timeoutActive,
                   timeoutDue, pollActive, pollDue, promise, result,
                   pendingCallbacks, files, envWrites, opened, rateLimitState,
                   spawned, attempts, helperInstalled, storeVars, urlVars, httpVars, validatorVars, burstVars>>

\* `open -a` of an app that already runs starts no new process
StartAbsorbed ==
    /\ starting > 0
    /\ alive # {}
    /\ starting' = starting - 1
    /\ UNCHANGED <<now, nextReq, pc, reqAction, callbackId, timeoutActive,
                   timeoutDue, pollActive, pollDue, promise, result,
                   pendingCallbacks, files, envWrites, opened, rateLimitState,
                   pidFile, alive, spawned, attempts, helperInstalled, storeVars, urlVars, httpVars, validatorVars, burstVars>>

\* a process ends; its PID file stays behind
ReceiverDies(pid) ==
    /\ pid \in alive
    /\ alive' = alive \ {pid}
    /\ UNCHANGED <<now, nextReq, pc, reqAction, callbackId, timeoutActive,
                   timeoutDue, pollActive, pollDue, promise, result,
                   pendingCallbacks, files, envWrites, opened, rateLimitState,
                   pidFile, starting, spawned, attempts, helperInstalled,
                   storeVars, urlVars, httpVars, validatorVars, burstVars>>

\* what the server may find when it starts: no PID file, the PID file of a
\* process that is alive or of one that is gone, or one that holds no number
HelperInit ==
    /\ now = 0
    /\ nextReq = 1
    /\ pc = [r \in Req |-> "idle"]
    /\ reqAction = [r \in Req |-> "none"]
    /\ callbackId = [r \in Req |-> NoId]
    /\ timeoutActive = [r \in Req |-> FALSE]
    /\ timeoutDue = [r \in Req |-> 0]
    /\ pollActive = [r \in Req |-> FALSE]
    /\ pollDue = [r \in Req |-> 0]
    /\ promise = [r \in Req |-> NoPromise]
    /\ result = [r \in Req |-> NoResult]
    /\ pendingCallbacks = EmptyMap
    /\ files = EmptyMap
    /\ envWrites = 0
    /\ opened = [r \in Req |-> NoUrl]
    /\ rateLimitState = EmptyMap
    /\ pidFile \in {NoPid, EarlierPid, NaNPid}
    /\ alive \in {{}, IF pidFile = EarlierPid THEN {EarlierPid} ELSE {}}
    /\ starting = 0
    /\ spawned = 0
    /\ attempts = [r \in Req |-> 0]
    /\ helperInstalled \in BOOLEAN
    /\ StoreAtRest
    /\ UrlAtRest
    /\ HttpAtRest
    /\ ValidatorAtRest
    /\ BurstAtRest

\* a call is between the start of executeUlyssesCommand and the first await
\* of ensureHelperAppRunning: nothing else runs until it gets there
InSyncBlock == \E r \in Req : pc[r] = "helper"

HelperNext ==
    \/ \E r \in Req : HelperCheck(r)
    \/ \E a \in ModelActions \cap CALLBACK_ACTIONS : ~InSyncBlock /\ ExecuteStart(a)
    \/ \E r \in Req : ~InSyncBlock /\ HelperPoll(r)
    \/ ~InSyncBlock /\ ReceiverComesUp
    \/ ~InSyncBlock /\ StartAbsorbed
    \/ \E pid \in alive : ~InSyncBlock /\ ReceiverDies(pid)

HelperSpec == HelperInit /\ [][HelperNext]_vars

\* the event loop runs the continuation of every call and ends every sleep
HelperFairness ==
    /\ \A r \in Req : WF_vars(HelperCheck(r))
    /\ \A r \in Req : WF_vars(HelperPoll(r))

HelperLiveSpec == HelperSpec /\ HelperFairness

(***************************************************************************)
(* SecureTempFileManager: paths                                            *)
(*                                                                         *)
(* A path is the sequence of the pieces of its text, "/" being a piece of  *)
(* its own, so that String.startsWith is the prefix test on pieces and a   *)
(* directory name can be continued by a further piece.                     *)
(***************************************************************************)
\* join(homedir(), 'Library/Application Support/ulysses-mcp/tmp')
tempDir == <<"/", "ulysses-mcp", "/", "tmp">>

\* String.prototype.startsWith
StartsWith(s, prefix) ==
    /\ Len(s) >= Len(prefix)
    /\ SubSeq(s, 1, Len(prefix)) = prefix

\* the check at the top of writeSecure, readSecure and deleteSecure
PathValid(filePath) == StartsWith(filePath, tempDir)

\* path.join with a file name made of these pieces
Join(dir, name) == dir \o <<"/">> \o name

getCallbackPath(id) == Join(tempDir, <<"callback-", id, ".json">>)

getHelperPidPath == Join(tempDir, <<"helper.pid">>)

\* the names between the separators of a path, each a sequence of pieces
RECURSIVE Segments(_)
Segments(p) ==
    IF p = <<>> THEN <<>>
    ELSE LET init == Segments(SubSeq(p, 1, Len(p) - 1))
             c == p[Len(p)]
         IN IF c = "/" THEN Append(init, <<>>)
            ELSE IF init = <<>> THEN <<<<c>>>>
            ELSE [init EXCEPT ![Len(init)] = Append(@, c)]

\* what the operating system makes of the names: an empty name is skipped
\* and ".." leaves the directory reached so far
RECURSIVE Normalize(_)
Normalize(segs) ==
    IF segs = <<>> THEN <<>>
    ELSE LET init == Normalize(SubSeq(segs, 1, Len(segs) - 1))
             seg == segs[Len(segs)]
         IN IF seg = <<>> THEN init
            ELSE IF seg = <<"..">>
                 THEN IF init = <<>> THEN <<>> ELSE SubSeq(init, 1, Len(init) - 1)
            ELSE Append(init, seg)

\* the location a path names
Resolve(p) == Normalize(Segments(p))

\* a location below the store root
InsideRoot(loc) ==
    /\ StartsWith(loc, Resolve(tempDir))
    /\ Len(loc) > Len(Resolve(tempDir))

\* the callbackId of the artifact the model works with
StoreId == "authorize-0-1"

ArtifactPath == getCallbackPath(StoreId)

\* a path that begins with the root and leaves it through ".."
EscapePath == tempDir \o <<"/", "..", "/", "secret">>

\* a path into a sibling directory whose name begins with the root's name
SiblingPath == tempDir \o <<"-evil", "/", "secret">>

\* a path that has nothing to do with the root
ForeignPath == <<"/", "etc", "/", "secret">>

StorePaths == {ArtifactPath, getHelperPidPath, EscapePath, SiblingPath, ForeignPath}

ArtifactLoc == Resolve(ArtifactPath)
PidLoc == Resolve(getHelperPidPath)
SecretLoc == Resolve(EscapePath)
SiblingLoc == Resolve(SiblingPath)
ForeignLoc == Resolve(ForeignPath)

\* the location of each path of the model, worked out once
LocationOf == [p \in StorePaths |-> Resolve(p)]

(***************************************************************************)
(* SecureTempFileManager: the file system                                  *)
(*                                                                         *)
(* disk maps a location to what is there; the directories on the way to    *)
(* the modelled locations exist.                                           *)
(***************************************************************************)
MODE_0600 == 384
MODE_0644 == 420

\* 60 * 60 * 1000
ONE_HOUR_MS == 3600000

DiskFile(mode, data, mtime) ==
    [kind |-> "file", mode |-> mode, data |-> data, mtime |-> mtime,
     target |-> <<>>]

DiskSymlink(target, mtime) ==
    [kind |-> "symlink", mode |-> 511, data |-> "none", mtime |-> mtime,
     target |-> target]

DiskDirectory(mtime) ==
    [kind |-> "dir", mode |-> 493, data |-> "none", mtime |-> mtime,
     target |-> <<>>]

\* where a system call that follows symbolic links ends up
Followed(d, loc) ==
    IF loc \in DOMAIN d /\ d[loc].kind = "symlink" THEN d[loc].target ELSE loc

\* existsSync follows symbolic links
existsSync(d, p) == Followed(d, LocationOf[p]) \in DOMAIN d

\* statSync, which follows them
statSync(d, p) == d[Followed(d, LocationOf[p])]

\* lstatSync does not follow them
lstatSync(d, p) == d[LocationOf[p]]

isSymbolicLink(stats) == stats.kind = "symlink"

isFile(stats) == stats.kind = "file"

\* writeFileSync with flag 'w' opens what the path leads to, a symbolic
\* link included, creates it when there is nothing, and throws on a directory
writeFileSyncThrows(d, p) ==
    LET loc == Followed(d, LocationOf[p])
    IN loc \in DOMAIN d /\ d[loc].kind = "dir"

\* the disk after a writeFileSync that does not throw: the mode of the call
\* is used only when the file is created
writeFileSync(d, p, data, mode, t) ==
    LET loc == Followed(d, LocationOf[p])
    IN IF loc \in DOMAIN d
       THEN MapSet(d, loc, DiskFile(d[loc].mode, data, t))
       ELSE MapSet(d, loc, DiskFile(mode, data, t))

\* readFileSync follows symbolic links
readFileSyncThrows(d, p) ==
    LET loc == Followed(d, LocationOf[p])
    IN loc \notin DOMAIN d \/ d[loc].kind = "dir"

readFileSync(d, p) == d[Followed(d, LocationOf[p])].data

\* unlinkSync removes a file or a link, never what the link points to, and
\* throws on a directory
unlinkSyncThrows(d, loc) == loc \notin DOMAIN d \/ d[loc].kind = "dir"

\* an unlink that leaves everything where it is
unlinkSyncNothing(d, loc) == d

unlinkSync(d, loc) == MapDelete(d, loc)

(***************************************************************************)
(* SecureTempFileManager: the methods                                      *)
(***************************************************************************)
\* everything a method of the store leaves alone
outsideStore ==
    <<nextReq, pc, reqAction, callbackId, timeoutActive, timeoutDue,
      pollActive, pollDue, promise, result, pendingCallbacks, files,
      envWrites, opened, rateLimitState, helperVars, requireDefined,
      urlVars, httpVars, validatorVars, burstVars>>

StoreResult(op, p, outcome, value, warned) ==
    [op |-> op, path |-> p, outcome |-> outcome, value |-> value,
     warned |-> warned, logged |-> {}]

\* what the store writes
StoreData == {"fresh"}

writeSecure(filePath, data) ==
    /\ IF ~PathValid(filePath) \/ writeFileSyncThrows(disk, filePath)
       THEN /\ storeResult' = StoreResult("write", filePath, "threw", "none", FALSE)
            /\ UNCHANGED disk
       ELSE /\ storeResult' = StoreResult("write", filePath, "returned", "none", FALSE)
            /\ disk' = writeFileSync(disk, filePath, data, MODE_0600, now)
    /\ UNCHANGED <<now, outsideStore>>

\* readSecure throws: the path check, or one of the throws inside the try
readSecureThrows(d, filePath) ==
    \/ ~PathValid(filePath)
    \/ ~existsSync(d, filePath)
    \/ isSymbolicLink(lstatSync(d, filePath))
    \/ ~isFile(lstatSync(d, filePath))
    \/ readFileSyncThrows(d, filePath)

readSecure(filePath) ==
    /\ IF readSecureThrows(disk, filePath)
       THEN storeResult' = StoreResult("read", filePath, "threw", "none", FALSE)
       ELSE storeResult' =
                StoreResult("read", filePath, "returned", readFileSync(disk, filePath),
                            lstatSync(disk, filePath).mode # MODE_0600)
    /\ UNCHANGED <<now, disk, outsideStore>>

deleteSecure(filePath) ==
    /\ IF ~PathValid(filePath)
       THEN /\ storeResult' = StoreResult("delete", filePath, "threw", "none", FALSE)
            /\ UNCHANGED disk
       ELSE IF ~existsSync(disk, filePath)
       THEN /\ storeResult' = StoreResult("delete", filePath, "returned", "none", FALSE)
            /\ UNCHANGED disk
       ELSE IF isSymbolicLink(lstatSync(disk, filePath))
       THEN /\ storeResult' = StoreResult("delete", filePath, "returned", "none", TRUE)
            /\ UNCHANGED disk
       ELSE /\ storeResult' = StoreResult("delete", filePath, "returned", "none", FALSE)
            /\ IF unlinkSyncThrows(disk, LocationOf[filePath])
               THEN UNCHANGED disk
               ELSE disk' = unlinkSync(disk, LocationOf[filePath])
    /\ UNCHANGED <<now, outsideStore>>

\* readdirSync(this.tempDir): the locations directly in the root
readdirSync(d) ==
    {loc \in DOMAIN d : InsideRoot(loc) /\ Len(loc) = Len(Resolve(tempDir)) + 1}

\* file.startsWith('callback-')
IsCallbackName(loc) == StartsWith(loc[Len(loc)], <<"callback-">>)

\* a sweep that takes every file for an old one
IsStaleAlways(stats, t) == TRUE

\* stats.mtimeMs < oneHourAgo
IsStale(stats, t) == stats.mtime < t - ONE_HOUR_MS

\* the entries one run of cleanup unlinks
Swept(d, t) ==
    {loc \in readdirSync(d) :
        /\ IsCallbackName(loc)
        /\ ~isSymbolicLink(d[loc])
        /\ IsStale(d[loc], t)
        /\ ~unlinkSyncThrows(d, loc)}

\* without a global require the first line of the try throws and the catch
\* logs it; the loop visits every entry, and no entry's fate depends on
\* another's
cleanup ==
    /\ IF requireDefined
       THEN /\ disk' = [loc \in DOMAIN disk \ Swept(disk, now) |-> disk[loc]]
            /\ storeResult' =
                   [StoreResult("cleanup", <<>>, "returned", "none", FALSE)
                       EXCEPT !.logged = Swept(disk, now)]
       ELSE /\ UNCHANGED disk
            /\ storeResult' = StoreResult("cleanup", <<>>, "returned", "none", FALSE)
    /\ UNCHANGED <<now, outsideStore>>

\* the time the clock stops at: the files written at 0 are older than an
\* hour, those written at 1 are exactly an hour old
StoreTimes == {ONE_HOUR_MS + 1}

StoreTick(t) ==
    /\ t \in StoreTimes
    /\ t > now
    /\ now' = t
    /\ UNCHANGED <<disk, storeResult, outsideStore>>

\* what may be at the artifact's path when the store is first used
InitialArtifacts ==
    {DiskFile(MODE_0600, "stale", 0), DiskFile(MODE_0644, "stale", 0),
     DiskFile(MODE_0600, "stale", 1), DiskSymlink(SecretLoc, 0),
     DiskDirectory(0)}

\* a disk with these entries; Nothing stands for no entry
Nothing == [kind |-> "none"]

DiskOf(artifact, pid, secret, sibling) ==
    LET all == [loc \in {ArtifactLoc, PidLoc, SecretLoc, SiblingLoc} |->
                   IF loc = ArtifactLoc THEN artifact
                   ELSE IF loc = PidLoc THEN pid
                   ELSE IF loc = SecretLoc THEN secret
                   ELSE sibling]
    IN [loc \in {l \in DOMAIN all : all[l] # Nothing} |-> all[loc]]

InitialDisks ==
    {DiskOf(a, p, s, v) :
        a \in InitialArtifacts \cup {Nothing},
        p \in {DiskFile(MODE_0600, "4242", 0)},
        s \in {Nothing, DiskFile(MODE_0644, "secret", 0)},
        v \in {Nothing}}

StoreInit ==
    /\ now = 0
    /\ nextReq = 1
    /\ pc = [r \in Req |-> "idle"]
    /\ reqAction = [r \in Req |-> "none"]
    /\ callbackId = [r \in Req |-> NoId]
    /\ timeoutActive = [r \in Req |-> FALSE]
    /\ timeoutDue = [r \in Req |-> 0]
    /\ pollActive = [r \in Req |-> FALSE]
    /\ pollDue = [r \in Req |-> 0]
    /\ promise = [r \in Req |-> NoPromise]
    /\ result = [r \in Req |-> NoResult]
    /\ pendingCallbacks = EmptyMap
    /\ files = EmptyMap
    /\ envWrites = 0
    /\ opened = [r \in Req |-> NoUrl]
    /\ rateLimitState = EmptyMap
    /\ HelperAtRest
    /\ disk \in InitialDisks
    /\ storeResult = NoStoreResult
    /\ requireDefined \in BOOLEAN
    /\ UrlAtRest
    /\ HttpAtRest
    /\ ValidatorAtRest
    /\ BurstAtRest

StoreNext ==
    \/ \E p \in StorePaths : \E data \in StoreData : writeSecure(p, data)
    \/ \E p \in StorePaths : readSecure(p)
    \/ \E p \in StorePaths : deleteSecure(p)
    \/ cleanup
    \/ \E t \in StoreTimes : StoreTick(t)

StoreSpec == StoreInit /\ [][StoreNext]_vars

(***************************************************************************)
(* The URL of executeUlyssesCommand for calls made with params             *)
(***************************************************************************)
\* values a caller may hand in: with a space, with the text of a further
\* x-success parameter, with other characters that mean something in a URL
SpacedValue == <<"a", " ", "b">>
AddressValue == <<"&", "x-success", "=", "x">>
MarksValue == <<"50", "%", "?", "/", ":">>

\* the params of a call: none, a text, or a text and a group
ParamSets ==
    {NoParams, <<<<"text", SpacedValue>>>>, <<<<"text", MarksValue>>>>,
     <<<<"text", AddressValue>>, <<"group", AddressValue>>>>}

UrlInit ==
    /\ now = 0
    /\ nextReq = 1
    /\ pc = [r \in Req |-> "idle"]
    /\ reqAction = [r \in Req |-> "none"]
    /\ callbackId = [r \in Req |-> NoId]
    /\ timeoutActive = [r \in Req |-> FALSE]
    /\ timeoutDue = [r \in Req |-> 0]
    /\ pollActive = [r \in Req |-> FALSE]
    /\ pollDue = [r \in Req |-> 0]
    /\ promise = [r \in Req |-> NoPromise]
    /\ result = [r \in Req |-> NoResult]
    /\ pendingCallbacks = EmptyMap
    /\ files = EmptyMap
    /\ envWrites = 0
    /\ opened = [r \in Req |-> NoUrl]
    /\ rateLimitState = EmptyMap
    /\ HelperAtRest
    /\ StoreAtRest
    /\ params \in [Req -> ParamSets]
    /\ openedText = [r \in Req |-> NoText]
    /\ HttpAtRest
    /\ ValidatorAtRest
    /\ BurstAtRest

\* the calls up to the point where the URL is in the hands of `open`, and
\* what `open` makes of it
UrlNext ==
    \/ \E a \in {"authorize", "new-sheet", "malicious-action"} : ExecuteStart(a)
    \/ \E r \in Req : HelperFailed(r)
    \/ \E r \in Req, rnd \in 1..MaxSuffix : Register(r, rnd)
    \/ \E r \in Req : OpenFailed(r)

UrlSpec == UrlInit /\ [][UrlNext]_vars

(***************************************************************************)
(* validateRequired, validateEnum and validateLength on their own          *)
(*                                                                         *)
(* A JavaScript value is a record of its type and of what it holds; the    *)
(* text of a string is the sequence of its characters.                     *)
(***************************************************************************)
MaxLen == 3

JsUndefined == [type |-> "undefined", text |-> <<>>, num |-> 0, flag |-> FALSE]
JsNull == [type |-> "null", text |-> <<>>, num |-> 0, flag |-> FALSE]
JsString(t) == [type |-> "string", text |-> t, num |-> 0, flag |-> FALSE]
JsNumber(n) == [type |-> "number", text |-> <<>>, num |-> n, flag |-> FALSE]
JsBoolean(b) == [type |-> "boolean", text |-> <<>>, num |-> 0, flag |-> b]

\* the characters of the strings of the model; trim() removes the blank
Chars == {"a", "A", " "}
WhiteSpace == {" "}

\* the strings of at most n characters
Strings(n) == UNION {[1..k -> Chars] : k \in 0..n}

\* the decimal digits of a natural number
RECURSIVE Digits(_)
Digits(n) ==
    IF n < 10 THEN <<ToString(n)>> ELSE Append(Digits(n \div 10), ToString(n % 10))

\* String(value)
StringOf(value) ==
    CASE value.type = "string" -> value.text
      [] value.type = "number" -> Digits(value.num)
      [] value.type = "boolean" -> IF value.flag THEN <<"t", "r", "u", "e">>
                                   ELSE <<"f", "a", "l", "s", "e">>
      [] value.type = "null" -> <<"n", "u", "l", "l">>
      [] OTHER -> <<"u", "n", "d", "e", "f", "i", "n", "e", "d">>

RECURSIVE TrimStart(_)
TrimStart(t) ==
    IF t # <<>> /\ t[1] \in WhiteSpace THEN TrimStart(Tail(t)) ELSE t

RECURSIVE TrimEnd(_)
TrimEnd(t) ==
    IF t # <<>> /\ t[Len(t)] \in WhiteSpace
    THEN TrimEnd(SubSeq(t, 1, Len(t) - 1))
    ELSE t

\* a trim that removes the blanks at the start only
TrimStartOnly(t) == TrimStart(t)

\* String.prototype.trim
Trim(t) == TrimEnd(TrimStart(t))

\* what a call produced: it returned a value or threw an error
ValidatorReturned(fn, value) ==
    [fn |-> fn, outcome |-> "returned", value |-> value, error |-> NoError]

ValidatorThrew(fn, e) ==
    [fn |-> fn, outcome |-> "threw", value |-> JsUndefined, error |-> e]

ValidateRequired(value, fieldName) ==
    IF value.type = "undefined" \/ value.type = "null"
    THEN ValidatorThrew("validateRequired", RequiredError(fieldName))
    ELSE LET strValue == Trim(StringOf(value))
         IN IF strValue = <<>>
            THEN ValidatorThrew("validateRequired", EmptyError(fieldName))
            ELSE ValidatorReturned("validateRequired", JsString(strValue))

\* an includes that does not look at the case of the letters
IncludesAnyCase(allowedValues, value) ==
    /\ value.type = "string"
    /\ \E a \in allowedValues :
          /\ Len(a) = Len(value.text)
          /\ \A i \in 1..Len(a) :
                \/ a[i] = value.text[i]
                \/ {a[i], value.text[i]} = {"a", "A"}

\* Array.prototype.includes: strict equality with one of the strings
Includes(allowedValues, value) ==
    value.type = "string" /\ value.text \in allowedValues

ValidateEnum(value, allowedValues, fieldName) ==
    IF value.type = "undefined"
    THEN ValidatorReturned("validateEnum", JsUndefined)
    ELSE IF ~Includes(allowedValues, value)
    THEN ValidatorThrew("validateEnum", EnumError(fieldName))
    ELSE ValidatorReturned("validateEnum", value)

\* a comparison that rejects the length that is equal to the maximum
TooLongInclusive(value, maxLength) == Len(value.text) >= maxLength

\* value.length > maxLength
TooLong(value, maxLength) == Len(value.text) > maxLength

ValidateLength(value, maxLength, fieldName) ==
    IF TooLong(value, maxLength)
    THEN ValidatorThrew("validateLength", LengthError(fieldName))
    ELSE ValidatorReturned("validateLength", value)

\* the allowed values of the enum field of the model
AllowedValues == {<<"a">>, <<"a", "A">>}

\* the calls of the model
ValidatorCalls ==
    {[fn |-> "validateRequired", value |-> v, allowed |-> {}, max |-> 0] :
        v \in {JsUndefined, JsNull, JsNumber(0), JsNumber(123),
               JsBoolean(TRUE), JsBoolean(FALSE)}
              \cup {JsString(t) : t \in Strings(MaxLen)}}
      \cup {[fn |-> "validateEnum", value |-> v, allowed |-> AllowedValues, max |-> 0] :
              v \in {JsUndefined, JsNull} \cup {JsString(t) : t \in Strings(MaxLen)}}
      \cup {[fn |-> "validateLength", value |-> JsString(t), allowed |-> {}, max |-> m] :
              t \in Strings(MaxLen), m \in 0..(MaxLen - 1)}

\* one call of a validator; it writes nothing but its result
Validate ==
    /\ validatorOut = NoValidatorCall
    /\ validatorOut' =
          CASE validatorIn.fn = "validateRequired" ->
                  ValidateRequired(validatorIn.value, "test")
            [] validatorIn.fn = "validateEnum" ->
                  ValidateEnum(validatorIn.value, validatorIn.allowed, "test")
            [] OTHER ->
                  ValidateLength(validatorIn.value, validatorIn.max, "test")
    /\ UNCHANGED <<now, nextReq, pc, reqAction, callbackId, timeoutActive,
                   timeoutDue, pollActive, pollDue, promise, result,
                   pendingCallbacks, files, envWrites, opened, rateLimitState,
                   helperVars, storeVars, urlVars, httpVars, validatorIn, burstVars>>

ValidatorInit ==
    /\ now = 0
    /\ nextReq = 1
    /\ pc = [r \in Req |-> "idle"]
    /\ reqAction = [r \in Req |-> "none"]
    /\ callbackId = [r \in Req |-> NoId]
    /\ timeoutActive = [r \in Req |-> FALSE]
    /\ timeoutDue = [r \in Req |-> 0]
    /\ pollActive = [r \in Req |-> FALSE]
    /\ pollDue = [r \in Req |-> 0]
    /\ promise = [r \in Req |-> NoPromise]
    /\ result = [r \in Req |-> NoResult]
    /\ pendingCallbacks = EmptyMap
    /\ files = EmptyMap
    /\ envWrites = 0
    /\ opened = [r \in Req |-> NoUrl]
    /\ rateLimitState = EmptyMap
    /\ HelperAtRest
    /\ StoreAtRest
    /\ UrlAtRest
    /\ HttpAtRest
    /\ validatorIn \in ValidatorCalls
    /\ validatorOut = NoValidatorCall
    /\ BurstAtRest

ValidatorNext == Validate

ValidatorSpec == ValidatorInit /\ [][ValidatorNext]_vars

(***************************************************************************)
(* The HTTP-callback variant: every call that needs a response gets a      *)
(* server of its own on 127.0.0.1, and Ulysses answers with a request to   *)
(* it.  findAvailablePort, the listen callback and the 'error' event all   *)
(* run before any timer or request is served, so a call up to its `open`   *)
(* is one step.                                                            *)
(***************************************************************************)
\* the ports the operating system hands out
Ports == {49152, 49153}

\* the ports of the servers of this process that listen
PortsInUse == {serverPort[r] : r \in serverOpen}

\* a request to a callback server may name any callbackId
ForeignId == <<"other", 0, 0>>

\* resolve(params) and reject(new Error(params.errorMessage || ...))
HttpSettlement(isError) ==
    IF isError THEN Rejected(PlainError(FallbackMessage)) ELSE Resolved("params")

\* the servers that listen after server.close() of the server stored in
\* callbackServers under the port, if there is one
CloseStored(open, cs, port) ==
    IF port \in DOMAIN cs THEN open \ {cs[port]} ELSE open

\* executeUlyssesCommand of the variant up to `open`: createCallbackServer
\* arms the timeout, registers the callbackId and listens; bound is FALSE
\* when another process took the port after findAvailablePort let go of it
HttpExecuteStart(action, rnd, port, bound) ==
    /\ nextReq <= MaxRequests
    /\ port \notin PortsInUse
    /\ nextReq' = nextReq + 1
    /\ reqAction' = [reqAction EXCEPT ![nextReq] = action]
    /\ IF action \notin ALLOWED_ACTIONS
       THEN /\ pc' = [pc EXCEPT ![nextReq] = "done"]
            /\ result' = [result EXCEPT ![nextReq] = Threw(InvalidActionError)]
            /\ UNCHANGED <<rateLimitState, opened, callbackId, promise,
                           timeoutActive, timeoutDue, pendingCallbacks, httpVars>>
       ELSE IF RateLimitThrows(rateLimitState, action, now)
       THEN /\ pc' = [pc EXCEPT ![nextReq] = "done"]
            /\ result' = [result EXCEPT ![nextReq] = Threw(RateLimitError)]
            /\ rateLimitState' = checkRateLimit(rateLimitState, action, now)
            /\ UNCHANGED <<opened, callbackId, promise, timeoutActive,
                           timeoutDue, pendingCallbacks, httpVars>>
       ELSE IF action \notin CALLBACK_ACTIONS
       THEN /\ pc' = [pc EXCEPT ![nextReq] = "opening"]
            /\ rateLimitState' = checkRateLimit(rateLimitState, action, now)
            /\ opened' = [opened EXCEPT ![nextReq] = Url(action, NoId)]
            /\ UNCHANGED <<result, callbackId, promise, timeoutActive,
                           timeoutDue, pendingCallbacks, httpVars>>
       ELSE LET id == MakeCallbackId(action, now, rnd) IN
            /\ pc' = [pc EXCEPT ![nextReq] = "opening"]
            /\ rateLimitState' = checkRateLimit(rateLimitState, action, now)
            /\ callbackId' = [callbackId EXCEPT ![nextReq] = id]
            /\ timeoutDue' = [timeoutDue EXCEPT ![nextReq] = now + CALLBACK_TIMEOUT_MS]
            /\ serverPort' = [serverPort EXCEPT ![nextReq] = port]
            /\ opened' = [opened EXCEPT ![nextReq] = Url(action, id)]
            /\ UNCHANGED result
            /\ IF bound
               THEN /\ timeoutActive' = [timeoutActive EXCEPT ![nextReq] = TRUE]
                    /\ pendingCallbacks' = MapSet(pendingCallbacks, id, nextReq)
                    /\ promise' = [promise EXCEPT ![nextReq] = PendingPromise]
                    /\ serverOpen' = serverOpen \cup {nextReq}
                    /\ callbackServers' = MapSet(callbackServers, port, nextReq)
               ELSE /\ timeoutActive' = [timeoutActive EXCEPT ![nextReq] = FALSE]
                    /\ pendingCallbacks' = MapDelete(pendingCallbacks, id)
                    /\ promise' = [promise EXCEPT ![nextReq] =
                                      Rejected(PlainError("listen EADDRINUSE"))]
                    /\ callbackServers' = MapDelete(callbackServers, port)
                    /\ UNCHANGED serverOpen
    /\ UNCHANGED <<now, pollActive, pollDue, files, envWrites>>
    /\ UNCHANGED <<helperVars, storeVars, urlVars, validatorVars, burstVars>>

\* the request handler of the server of call r
HttpRequest(r, receivedCallbackId, isError) ==
    /\ r \in serverOpen
    /\ IF receivedCallbackId # callbackId[r]
          \/ callbackId[r] \notin DOMAIN pendingCallbacks
       THEN UNCHANGED <<pc, result, promise, timeoutActive, pendingCallbacks,
                        httpVars>>
       ELSE LET callback == pendingCallbacks[callbackId[r]]
                p == Settle(promise[callback], HttpSettlement(isError))
            IN /\ timeoutActive' = [timeoutActive EXCEPT ![callback] = FALSE]
               /\ pendingCallbacks' = MapDelete(pendingCallbacks, callbackId[r])
               /\ serverOpen' = serverOpen \ {r}
               /\ callbackServers' = MapDelete(callbackServers, serverPort[r])
               /\ promise' = [promise EXCEPT ![callback] = p]
               /\ Deliver(callback, p)
               /\ UNCHANGED serverPort
    /\ UNCHANGED <<now, nextReq, reqAction, callbackId, timeoutDue, pollActive,
                   pollDue, files, envWrites, opened, rateLimitState>>
    /\ UNCHANGED <<helperVars, storeVars, urlVars, validatorVars, burstVars>>

\* the callback of setTimeout in createCallbackServer
HttpTimeout(r) ==
    /\ timeoutActive[r]
    /\ now >= timeoutDue[r]
    /\ LET p == TimeoutReject(promise[r])
       IN /\ timeoutActive' = [timeoutActive EXCEPT ![r] = FALSE]
          /\ pendingCallbacks' = MapDelete(pendingCallbacks, callbackId[r])
          /\ serverOpen' = CloseStored(serverOpen, callbackServers, serverPort[r])
          /\ callbackServers' = MapDelete(callbackServers, serverPort[r])
          /\ promise' = [promise EXCEPT ![r] = p]
          /\ Deliver(r, p)
    /\ UNCHANGED <<now, nextReq, reqAction, callbackId, timeoutDue, pollActive,
                   pollDue, files, envWrites, opened, rateLimitState, serverPort>>
    /\ UNCHANGED <<helperVars, storeVars, urlVars, validatorVars, burstVars>>

HttpNext ==
    \/ \E a \in ModelActions \cap CALLBACK_ACTIONS, rnd \in 1..MaxSuffix,
          port \in Ports, bound \in BOOLEAN : HttpExecuteStart(a, rnd, port, bound)
    \/ \E r \in Req : OpenSucceeded(r)
    \/ \E r \in Req : OpenFailed(r)
    \/ \E r \in Req, id \in AllocatedIds \cup {ForeignId}, isError \in BOOLEAN :
          HttpRequest(r, id, isError)
    \/ \E r \in Req : HttpTimeout(r)
    \/ \E t \in Deadlines : Advance(t)

HttpSpec == Init /\ [][HttpNext]_vars

(***************************************************************************)
(* checkRateLimit on its own, called for a destructive action at the       *)
(* times around the ends of its windows; the calls it lets pass are        *)
(* counted by action and time.                                             *)
(***************************************************************************)
\* one more call at the key
Counted(log, key) ==
    MapSet(log, key, IF key \in DOMAIN log THEN log[key] + 1 ELSE 1)

\* one call of checkRateLimit(action) at the present time
RateLimitedCall(action) ==
    /\ rateLimitState' = checkRateLimit(rateLimitState, action, now)
    /\ acceptedLog' = IF RateLimitThrows(rateLimitState, action, now)
                      THEN acceptedLog
                      ELSE Counted(acceptedLog, <<action, now>>)
    /\ UNCHANGED <<now, nextReq, pc, reqAction, callbackId, timeoutActive,
                   timeoutDue, pollActive, pollDue, promise, result,
                   pendingCallbacks, files, envWrites, opened>>
    /\ UNCHANGED <<helperVars, storeVars, urlVars, httpVars, validatorVars>>

BurstNext ==
    \/ \E a \in ModelActions \cap DESTRUCTIVE_ACTIONS : RateLimitedCall(a)
    \/ \E t \in Deadlines : Advance(t)

BurstSpec == Init /\ [][BurstNext]_vars

(***************************************************************************)
(* The callbackId field of an artifact.  The JSON the helper app writes    *)
(* has a callbackId next to isError and data; here whoever writes to a     *)
(* callback path chooses that field as well, and the calls run as before.  *)
(***************************************************************************)
\* the JSON { "callbackId": ..., "isError": ..., "data": ... }
Named(c, id) ==
    [parses |-> c.parses, isError |-> c.isError, data |-> c.data, callbackId |-> id]

\* the callbackIds a writer may put into the field
FieldIds == AllocatedIds \cup {ForeignId}

\* another process writes a regular artifact to the callback path of id
EnvWriteNamed(id, c, named) ==
    /\ envWrites < MaxEnvWrites
    /\ id \in AllocatedIds
    /\ envWrites' = envWrites + 1
    /\ files' = MapSet(files, id, RegularFile(Named(c, named)))
    /\ UNCHANGED <<now, nextReq, pc, reqAction, callbackId,
                   timeoutActive, timeoutDue, pollActive, pollDue, promise,
                   result, pendingCallbacks, opened, rateLimitState>>
    /\ UNCHANGED <<helperVars, storeVars, urlVars, httpVars, validatorVars, burstVars>>

FieldNext ==
    \/ \E a \in ModelActions \cap CALLBACK_ACTIONS : ExecuteStart(a)
    \/ \E r \in Req : HelperFailed(r)
    \/ \E r \in Req, rnd \in 1..MaxSuffix : Register(r, rnd)
    \/ \E r \in Req : OpenSucceeded(r)
    \/ \E r \in Req : OpenFailed(r)
    \/ \E r \in Req : PollTick(r)
    \/ \E r \in Req : TimeoutFire(r)
    \/ \E t \in Deadlines : Advance(t)
    \/ \E r \in Req, c \in {OkPayload, ErrWithMessage}, named \in FieldIds :
          EnvWriteNamed(callbackId[r], c, named)

FieldSpec == Init /\ [][FieldNext]_vars

(***************************************************************************)
(* Fairness: the event loop runs every callback that is due, the clock     *)
(* goes on, and the helper start and `open` come to an end.                *)
(***************************************************************************)
Fairness ==
    /\ \A r \in Req : WF_vars(PollTick(r))
    /\ \A r \in Req : WF_vars(TimeoutFire(r))
    /\ \A r \in Req : WF_vars(HelperFailed(r) \/ \E rnd \in 1..MaxSuffix : Register(r, rnd))
    /\ \A r \in Req : WF_vars(OpenSucceeded(r) \/ OpenFailed(r))
    /\ WF_vars(\E t \in Deadlines : Advance(t))

LiveSpec == Spec /\ Fairness

(***************************************************************************)
(* Vocabulary of the properties                                            *)
(***************************************************************************)
Settled(p) == p.state \in {"resolved", "rejected"}

\* the call has a callbackId, so it went through waitForCallback
Waits(r) == callbackId[r] # NoId

\* the timestamp inside a callbackId
IdTime(id) == id[2]

\* a terminal transition has happened for the callbackId
Transitioned(id) == \E q \in Req : callbackId[q] = id /\ Settled(promise[q])

\* the step is a terminal transition of call r
TerminalStep(r) == promise[r].state = "pending" /\ Settled(promise'[r])

\* what is at the callback path of call r is a regular file with content c
ArtifactIs(r, c) ==
    /\ callbackId[r] \in DOMAIN files
    /\ files[callbackId[r]] = RegularFile(c)

\* the cleanup of a terminal transition has been done for call r in the next state
CleanedUp(r) ==
    /\ callbackId[r] \notin DOMAIN pendingCallbacks'
    /\ ~timeoutActive'[r]
    /\ ~pollActive'[r]

(***************************************************************************)
(* C1: for each callbackId at most one terminal transition occurs; once    *)
(* one has occurred the registry has no entry for the callbackId and a     *)
(* later poll tick or timeout of that callbackId changes neither a         *)
(* promise, nor a result, nor the registry, nor the callback files.        *)
(***************************************************************************)
C1_OneTransitionPerId ==
    [][\A r \in Req :
         (Waits(r) /\ Transitioned(callbackId[r])) =>
            /\ callbackId[r] \notin DOMAIN pendingCallbacks
            /\ Cardinality({q \in Req : callbackId[q] = callbackId[r]
                                        /\ Settled(promise'[q])}) <= 1
            /\ (PollTick(r) \/ TimeoutFire(r)) =>
                  UNCHANGED <<promise, result, pendingCallbacks, files>>]_vars

(***************************************************************************)
(* C2: after a terminal transition of a call the registry has no entry for *)
(* its callbackId, its timeout is cancelled or spent and its poll is       *)
(* cancelled.                                                              *)
(***************************************************************************)
C2_NothingLeftBehind ==
    \A r \in Req :
        Settled(promise[r]) =>
            /\ callbackId[r] \notin DOMAIN pendingCallbacks
            /\ ~timeoutActive[r]
            /\ ~pollActive[r]

C4_TimeoutLeavesNothing ==
    \A r \in Req :
        (envWrites = 0 /\ promise[r] = Rejected(TimeoutError)) =>
            /\ now >= IdTime(callbackId[r]) + CALLBACK_TIMEOUT_MS
            /\ callbackId[r] \notin DOMAIN pendingCallbacks
            /\ ~timeoutActive[r]
            /\ ~pollActive[r]


C6_ErrorArtifactRejects ==
    [][\A r \in Req :
         (/\ PollTick(r)
          /\ promise[r].state = "pending"
          /\ \E c \in {ErrWithMessage, ErrNoMessage, ErrNoData} : ArtifactIs(r, c))
         => /\ promise'[r] =
                 Rejected(PlainError(
                     IF ErrorMessageOf(files[callbackId[r]].content.data) = "undefined"
                     THEN FallbackMessage
                     ELSE ErrorMessageOf(files[callbackId[r]].content.data)))
            /\ callbackId[r] \notin DOMAIN files'
            /\ CleanedUp(r)]_vars

(***************************************************************************)
(* C7: when `open` fails for a call that registered a wait, then at the    *)
(* moment execute rejects the registry has no entry for the call's         *)
(* callbackId and neither its timeout nor its poll is armed.               *)
(***************************************************************************)
C7_FailedDispatchCleansUp ==
    [][\A r \in Req : (OpenFailed(r) /\ Waits(r)) => CleanedUp(r)]_vars

(***************************************************************************)
(* C8: a poll tick of a pending call that finds an artifact that is not    *)
(* JSON rejects with the internal error and deletes the artifact.          *)
(***************************************************************************)
C8_CorruptArtifactDeleted ==
    [][\A r \in Req :
         (/\ PollTick(r)
          /\ promise[r].state = "pending"
          /\ ArtifactIs(r, Garbage))
         => /\ promise'[r] = Rejected(ReadFailedError)
            /\ callbackId[r] \notin DOMAIN files']_vars

(***************************************************************************)
(* C9: while a symbolic link is at the callback path of a pending call,    *)
(* the call is not settled from it: its promise stays pending or is        *)
(* rejected by the timeout.                                                *)
(***************************************************************************)
C9_SymlinkNeverRead ==
    [][\A r \in Req :
         (/\ promise[r].state = "pending"
          /\ callbackId[r] \in DOMAIN files
          /\ files[callbackId[r]].kind = "symlink")
         => promise'[r] \in {promise[r], Rejected(TimeoutError)}]_vars

(***************************************************************************)
(* C10: a terminal transition of one of two pending calls leaves the       *)
(* other's registry entry, timeout, poll, artifact and promise unchanged.  *)
(***************************************************************************)
C10_PendingCallsIndependent ==
    [][\A r1, r2 \in Req :
         (/\ r1 # r2
          /\ promise[r2].state = "pending"
          /\ TerminalStep(r1))
         => /\ promise'[r2] = promise[r2]
            /\ timeoutActive'[r2] = timeoutActive[r2]
            /\ pollActive'[r2] = pollActive[r2]
            /\ pollDue'[r2] = pollDue[r2]
            /\ (callbackId[r2] \in DOMAIN pendingCallbacks')
                  = (callbackId[r2] \in DOMAIN pendingCallbacks)
            /\ (callbackId[r2] \in DOMAIN files') = (callbackId[r2] \in DOMAIN files)
            /\ callbackId[r2] \in DOMAIN files
                  => files'[callbackId[r2]] = files[callbackId[r2]]]_vars


(***************************************************************************)
(* What holds of the calls whose callbackId no other call has: the         *)
(* statements of C1, C2, C4 and C10 restricted to runs in which the        *)
(* callbackIds made so far are pairwise distinct.  TLC finds all four to   *)
(* hold under Spec.                                                        *)
(***************************************************************************)
DistinctIds ==
    \A a, b \in Req : (a # b /\ callbackId[a] # NoId) => callbackId[a] # callbackId[b]

Lemma_C1_DistinctIds ==
    [][DistinctIds' =>
         \A r \in Req :
            (Waits(r) /\ Transitioned(callbackId[r])) =>
               /\ callbackId[r] \notin DOMAIN pendingCallbacks
               /\ (PollTick(r) \/ TimeoutFire(r)) =>
                     UNCHANGED <<promise, result, pendingCallbacks, files>>]_vars

Lemma_C2_DistinctIds == DistinctIds => C2_NothingLeftBehind

Lemma_C4_DistinctIds == DistinctIds => C4_TimeoutLeavesNothing

Lemma_C10_DistinctIds ==
    [][DistinctIds' =>
         \A r1, r2 \in Req :
            (r1 # r2 /\ promise[r2].state = "pending" /\ TerminalStep(r1))
            => /\ promise'[r2] = promise[r2]
               /\ timeoutActive'[r2] = timeoutActive[r2]
               /\ pollActive'[r2] = pollActive[r2]
               /\ (callbackId[r2] \in DOMAIN pendingCallbacks')
                     = (callbackId[r2] \in DOMAIN pendingCallbacks)
               /\ (callbackId[r2] \in DOMAIN files') = (callbackId[r2] \in DOMAIN files)]_vars

(***************************************************************************)
(* C11: the callbackIds of the calls that are pending at the same time are *)
(* pairwise distinct, and every pending call is the one the registry holds *)
(* under its callbackId: no registration has overwritten its entry.        *)
(***************************************************************************)
C11_PendingIdsDistinct ==
    \A a, b \in Req :
        (a # b /\ promise[a].state = "pending" /\ promise[b].state = "pending")
            => /\ callbackId[a] # callbackId[b]
               /\ callbackId[a] \in DOMAIN pendingCallbacks
               /\ pendingCallbacks[callbackId[a]] = a

(***************************************************************************)
(* Vocabulary of the properties of the commands                            *)
(***************************************************************************)
\* the call that starts in this step is refused by checkRateLimit
Refused == result'[nextReq] = Threw(RateLimitError)

\* the call that starts in this step gets past checkRateLimit
Passed == result'[nextReq] = NoResult /\ pc'[nextReq] \in {"helper", "opening"}

\* the call that starts in this step ends in it; no URL is built or handed
\* to `open`, ensureHelperAppRunning is not called, nothing is registered
NothingInvoked ==
    /\ pc'[nextReq] = "done"
    /\ opened' = opened
    /\ UNCHANGED <<pendingCallbacks, callbackId, timeoutActive, pollActive,
                   promise, files>>

\* a fresh window that starts now
FreshWindow == [count |-> 1, resetTime |-> now + RATE_LIMIT_WINDOW_MS]

ModelDestructive == ModelActions \cap DESTRUCTIVE_ACTIONS

(***************************************************************************)
(* C12: a call with an action name that is not in the whitelist throws the *)
(* invalid-params error at once: no URL is built or opened, the rate-limit *)
(* state is unchanged, ensureHelperAppRunning is not called and nothing is *)
(* registered.                                                             *)
(***************************************************************************)
C12_UnlistedActionRejected ==
    [][ExecuteStart("malicious-action") =>
          /\ result'[nextReq].kind = "threw"
          /\ result'[nextReq].error.code = "InvalidParams"
          /\ rateLimitState' = rateLimitState
          /\ NothingInvoked]_vars

\* an unlisted action was refused while a rate-limit window was open
C12_Witness ==
    \E r \in Req :
        /\ reqAction[r] = "malicious-action"
        /\ result[r] = Threw(InvalidActionError)
        /\ opened[r] = NoUrl
        /\ "trash" \in DOMAIN rateLimitState

(***************************************************************************)
(* C13: for a destructive action, the call made when there is no window    *)
(* passes and opens a window of RATE_LIMIT_WINDOW_MS with count 1; a call  *)
(* inside the window passes and adds one while the count is below 10; the  *)
(* call inside the window that follows ten counted calls is refused; the   *)
(* call made 1 ms after the end of the window passes and opens a new       *)
(* window with count 1.                                                    *)
(***************************************************************************)
C13_TenCallsPerWindow ==
    [][\A a \in ModelDestructive :
         ExecuteStart(a) =>
            /\ a \notin DOMAIN rateLimitState
                  => Passed /\ rateLimitState'[a] = FreshWindow
            /\ (/\ a \in DOMAIN rateLimitState
                /\ now < rateLimitState[a].resetTime
                /\ rateLimitState[a].count < 10)
                  => /\ Passed
                     /\ rateLimitState'[a] =
                           [count |-> rateLimitState[a].count + 1,
                            resetTime |-> rateLimitState[a].resetTime]
            /\ (/\ a \in DOMAIN rateLimitState
                /\ now < rateLimitState[a].resetTime
                /\ rateLimitState[a].count = 10)
                  => Refused
            /\ (/\ a \in DOMAIN rateLimitState
                /\ now = rateLimitState[a].resetTime + 1)
                  => Passed /\ rateLimitState'[a] = FreshWindow]_vars

\* an eleventh call was refused in the first window, and the call made 1 ms
\* after the end of that window passed and opened the second window
C13_Witness ==
    \E r1, r2 \in Req :
        /\ reqAction[r1] = "trash" /\ result[r1] = Threw(RateLimitError)
        /\ reqAction[r2] = "trash" /\ pc[r2] = "opening"
        /\ now = RATE_LIMIT_WINDOW_MS + 1
        /\ rateLimitState["trash"] =
              [count |-> 1, resetTime |-> 2 * RATE_LIMIT_WINDOW_MS + 1]

(***************************************************************************)
(* C14: every entry of the rate-limit state belongs to a destructive       *)
(* action and its count is at least 1 and at most 10.                      *)
(***************************************************************************)
C14_CountWithinCeiling ==
    \A a \in DOMAIN rateLimitState :
        /\ a \in DESTRUCTIVE_ACTIONS
        /\ rateLimitState[a].count >= 1
        /\ rateLimitState[a].count <= 10

\* a window is used up and a call has been refused in it
C14_Witness ==
    /\ \E a \in DOMAIN rateLimitState : rateLimitState[a].count = 10
    /\ \E r \in Req : result[r] = Threw(RateLimitError)

(***************************************************************************)
(* C15: a call for a destructive action made at or after the resetTime of  *)
(* the action's entry (also exactly at resetTime) passes and replaces the  *)
(* entry by a fresh window with count 1.                                   *)
(***************************************************************************)
C15_ExpiredWindowReplaced ==
    [][\A a \in ModelDestructive :
         (/\ ExecuteStart(a)
          /\ a \in DOMAIN rateLimitState
          /\ now >= rateLimitState[a].resetTime)
         => Passed /\ rateLimitState'[a] = FreshWindow]_vars

(***************************************************************************)
(* C16: a call that checkRateLimit refuses leaves the whole rate-limit     *)
(* state as it was.                                                        *)
(***************************************************************************)
C16_RefusalChangesNothing ==
    [][\A a \in ModelActions :
         (ExecuteStart(a) /\ Refused) => rateLimitState' = rateLimitState]_vars

\* a call was refused while two actions had a window
C16_Witness ==
    \E r \in Req :
        /\ result[r] = Threw(RateLimitError)
        /\ rateLimitState[reqAction[r]].count = 10
        /\ {"trash", "move"} \subseteq DOMAIN rateLimitState

(***************************************************************************)
(* C17: a call for an action that is not destructive is never refused by   *)
(* checkRateLimit and leaves the rate-limit state as it was.               *)
(***************************************************************************)
C17_OthersNeverLimited ==
    [][\A a \in {"new-sheet", "malicious-action"} :
         ExecuteStart(a) => ~Refused /\ rateLimitState' = rateLimitState]_vars

\* new-sheet went through while the window of trash was used up
C17_Witness ==
    \E r \in Req :
        /\ reqAction[r] = "new-sheet"
        /\ result[r].kind = "returned"
        /\ "trash" \in DOMAIN rateLimitState
        /\ rateLimitState["trash"].count = 10
        /\ "new-sheet" \notin DOMAIN rateLimitState

(***************************************************************************)
(* C18: a call for a destructive action whose window holds ten counted     *)
(* calls throws the rate-limit error at once: ensureHelperAppRunning is    *)
(* not called, nothing is registered and no URL is built or opened.        *)
(***************************************************************************)
C18_RefusedBeforeAnything ==
    [][\A a \in ModelDestructive :
         (/\ ExecuteStart(a)
          /\ a \in DOMAIN rateLimitState
          /\ now < rateLimitState[a].resetTime
          /\ rateLimitState[a].count >= 10)
         => /\ result'[nextReq] = Threw(RateLimitError)
            /\ NothingInvoked]_vars

\* a destructive call was refused and nothing was opened for it
C18_Witness ==
    \E r \in Req :
        /\ reqAction[r] \in DESTRUCTIVE_ACTIONS
        /\ result[r] = Threw(RateLimitError)
        /\ opened[r] = NoUrl
        /\ callbackId[r] = NoId
        /\ pendingCallbacks = EmptyMap

(***************************************************************************)
(* C19: a call for a whitelisted action that needs no callback goes        *)
(* straight to `open` with a URL that carries neither x-success nor        *)
(* x-error, and returns the success text as soon as `open` has succeeded;  *)
(* it has no callbackId, no promise, no timer and no registry entry, and   *)
(* ensureHelperAppRunning and the callback files are left alone.           *)
(***************************************************************************)
C19_NoCallbackNoWait ==
    [][/\ \A a \in {"new-sheet", "trash"} :
            (ExecuteStart(a) /\ ~Refused) =>
               /\ pc'[nextReq] = "opening"
               /\ opened'[nextReq] = [action |-> a, xSuccess |-> NoId, xError |-> NoId]
               /\ UNCHANGED <<pendingCallbacks, callbackId, timeoutActive,
                              pollActive, promise, files>>
       /\ \A r \in Req :
            (OpenSucceeded(r) /\ reqAction[r] \in {"new-sheet", "trash"}) =>
               /\ pc'[r] = "done"
               /\ result'[r] = Returned("Successfully executed")
               /\ callbackId[r] = NoId
               /\ promise[r] = NoPromise
               /\ ~timeoutActive[r] /\ ~pollActive[r]
               /\ UNCHANGED <<pendingCallbacks, files>>]_vars

\* new-sheet has returned the success text
C19_Witness ==
    \E r \in Req :
        /\ reqAction[r] = "new-sheet"
        /\ result[r] = Returned("Successfully executed")
        /\ opened[r] = [action |-> "new-sheet", xSuccess |-> NoId, xError |-> NoId]
        /\ callbackId[r] = NoId
        /\ promise[r] = NoPromise

(***************************************************************************)
(* Vocabulary of the properties of the tool handler                        *)
(***************************************************************************)
\* a field the caller supplied fails validation: a required field is
\* missing or empty, the text is longer than its ceiling, or the format is
\* given and is not one of the listed values
FailsValidation(tool, args) ==
    IF tool = "ulysses_new_sheet"
    THEN \/ ~args.text.defined
         \/ args.text.len = 0
         \/ args.text.len > NEW_SHEET_TEXT_MAX
         \/ (args.format # NoEnum /\ args.format \notin FormatValues)
    ELSE \/ ~args.id.defined
         \/ args.id.len = 0
         \/ ~args.access_token.defined
         \/ args.access_token.len = 0

\* the tool call that starts in this step throws the invalid-params error
\* at once and nothing has happened: no URL, no rate-limit slot, nothing
\* registered
FailsEarly ==
    /\ result'[nextReq].kind = "threw"
    /\ result'[nextReq].error.code = "InvalidParams"
    /\ rateLimitState' = rateLimitState
    /\ NothingInvoked

(***************************************************************************)
(* C20: a tool call with a field that fails validation throws before       *)
(* anything is invoked: no URL is opened, the rate-limit state is          *)
(* unchanged and nothing is registered.                                    *)
(***************************************************************************)
C20_InvalidCallFailsEarly ==
    [][\A tool \in {"ulysses_new_sheet", "ulysses_trash"} :
         \A args \in ToolArgs(tool) :
            (CallTool(tool, args) /\ FailsValidation(tool, args)) => FailsEarly]_vars

(***************************************************************************)
(* What holds of the tool calls: the statement of C20 for every argument   *)
(* but an empty string in an optional enum field.  TLC finds it to hold    *)
(* under ToolSpec.                                                         *)
(***************************************************************************)
Lemma_C20_FormatNotEmpty ==
    [][\A tool \in {"ulysses_new_sheet", "ulysses_trash"} :
         \A args \in ToolArgs(tool) :
            (CallTool(tool, args) /\ FailsValidation(tool, args) /\ args.format # "")
               => FailsEarly]_vars

(***************************************************************************)
(* Vocabulary of the properties of ensureHelperAppRunning                  *)
(***************************************************************************)
\* the PID file is there and names a process that is alive
MarkerLive == pidFile # NoPid /\ pidFile \in alive

\* the PID file is there and the probe of what it names fails
MarkerStale == pidFile # NoPid /\ pidFile \notin alive

\* the step spawns a helper app
Launches == spawned' = spawned + 1

C22_OneLaunchAtATime ==
    [][\A r \in Req :
         (HelperCheck(r) /\ (starting > 0 \/ alive # {})) => ~Launches]_vars

(***************************************************************************)
(* C23: the wait loop of ensureHelperAppRunning ends: a look that finds    *)
(* the PID file makes the function return, the function fails only after   *)
(* HELPER_MAX_ATTEMPTS looks that found nothing, and then with the         *)
(* helper-start error; every call that waits eventually returns or fails.  *)
(***************************************************************************)
C23_StartupWaitEnds ==
    /\ [][\A r \in Req :
            HelperPoll(r) =>
               /\ attempts'[r] <= HELPER_MAX_ATTEMPTS
               /\ (attempts'[r] < HELPER_MAX_ATTEMPTS /\ pidFile # NoPid)
                     => pc'[r] = "ready"
               /\ pc'[r] = "done" =>
                     /\ attempts'[r] = HELPER_MAX_ATTEMPTS
                     /\ result'[r].error.code = "InternalError"
                     /\ result'[r].error.msg = "Failed to start helper app"]_vars
    /\ \A r \in Req : (pc[r] = "helper-wait") ~> (pc[r] \in {"ready", "done"})

\* one call gave up after the whole budget and another returned from the
\* wait loop
C23_Witness ==
    \E r1, r2 \in Req :
        /\ pc[r1] = "done"
        /\ attempts[r1] = HELPER_MAX_ATTEMPTS
        /\ result[r1] = Threw(HelperStartError)
        /\ pc[r2] = "ready"
        /\ attempts[r2] > 0


(***************************************************************************)
(* C30: after a request has timed out, an artifact found at its callback   *)
(* path, whether it was there when the timeout fired or was written        *)
(* afterwards, is eventually removed.                                      *)
(***************************************************************************)
TimedOut(r) == promise[r] = Rejected(TimeoutError)

\* a regular file, which is what the receiver writes, is at the callback path
ArtifactRemains(r) ==
    /\ TimedOut(r)
    /\ callbackId[r] \in DOMAIN files
    /\ files[callbackId[r]].kind = "file"

C30_TimedOutArtifactRemoved ==
    \A r \in Req : ArtifactRemains(r) ~> ~ArtifactRemains(r)


(***************************************************************************)
(* Vocabulary of the properties of the secure store                        *)
(***************************************************************************)
\* a step is a call of one of the three methods that take a path
StoreCall(p) ==
    \/ \E data \in StoreData : writeSecure(p, data)
    \/ readSecure(p)
    \/ deleteSecure(p)

\* the entries at the locations other than loc are what they were
OthersUnchanged(loc) ==
    /\ DOMAIN disk' \ {loc} = DOMAIN disk \ {loc}
    /\ \A l \in DOMAIN disk \ {loc} : disk'[l] = disk[l]

(***************************************************************************)
(* C24: writeSecure, readSecure and deleteSecure fail closed for every     *)
(* path that resolves to a location outside the store root, a path that    *)
(* begins with the root and leaves it through ".." and a path into a       *)
(* sibling directory whose name begins with the root's name included: the  *)
(* call throws and the disk is what it was.                                *)
(***************************************************************************)
C24_OutsideFailsClosed ==
    [][\A p \in StorePaths :
          (StoreCall(p) /\ ~InsideRoot(LocationOf[p]))
             => (storeResult'.outcome = "threw" /\ disk' = disk)]_vars


(***************************************************************************)
(* C25: readSecure on a path inside the root throws when nothing is at the *)
(* path, throws when a symbolic link is at the path whatever the link      *)
(* points to, and returns the content of a regular file; a regular file    *)
(* whose mode is not 0600 is read all the same, with a warning and nothing *)
(* more.  The disk is left as it was.                                      *)
(***************************************************************************)
PathsInRoot == {ArtifactPath, getHelperPidPath}

C25_ReadSecureOutcomes ==
    [][\A p \in PathsInRoot :
          readSecure(p) =>
             LET loc == LocationOf[p]
             IN /\ disk' = disk
                /\ loc \notin DOMAIN disk => storeResult'.outcome = "threw"
                /\ (loc \in DOMAIN disk /\ disk[loc].kind = "symlink")
                      => storeResult'.outcome = "threw"
                /\ (loc \in DOMAIN disk /\ disk[loc].kind = "file")
                      => /\ storeResult'.outcome = "returned"
                         /\ storeResult'.value = disk[loc].data
                         /\ storeResult'.warned = (disk[loc].mode # MODE_0600)]_vars

\* a file of mode 0644 has been read, with a warning
C25_Witness ==
    /\ storeResult.op = "read"
    /\ storeResult.path = ArtifactPath
    /\ storeResult.outcome = "returned"
    /\ storeResult.warned
    /\ storeResult.value = "stale"
    /\ ArtifactLoc \in DOMAIN disk
    /\ disk[ArtifactLoc].mode = MODE_0644


(***************************************************************************)
(* C26: deleteSecure on a path inside the root never throws: with nothing  *)
(* at the path it does nothing, a symbolic link is left in place and only  *)
(* logged, a regular file is removed, and a failing unlink (a directory)   *)
(* is swallowed; the entries at every other location are unchanged.        *)
(***************************************************************************)
C26_DeleteSecureBestEffort ==
    [][\A p \in PathsInRoot :
          deleteSecure(p) =>
             LET loc == LocationOf[p]
             IN /\ storeResult'.outcome = "returned"
                /\ OthersUnchanged(loc)
                /\ loc \notin DOMAIN disk => disk' = disk
                /\ (loc \in DOMAIN disk /\ disk[loc].kind = "symlink")
                      => disk' = disk
                /\ (loc \in DOMAIN disk /\ disk[loc].kind = "file")
                      => loc \notin DOMAIN disk'
                /\ (loc \in DOMAIN disk /\ disk[loc].kind = "dir")
                      => disk' = disk]_vars

\* deleteSecure has returned from a path at which a directory is, and
\* another call has removed the PID file
C26_Witness ==
    /\ storeResult.op = "delete"
    /\ storeResult.path = ArtifactPath
    /\ storeResult.outcome = "returned"
    /\ ArtifactLoc \in DOMAIN disk
    /\ disk[ArtifactLoc].kind = "dir"
    /\ PidLoc \notin DOMAIN disk


(***************************************************************************)
(* C27: after a writeSecure to the artifact path that returns, the file at *)
(* the path holds exactly the written data and has mode 0600, whether the  *)
(* path was empty before or held a stale artifact of any mode.             *)
(***************************************************************************)
C27_WrittenFileOwnerOnly ==
    [][\A data \in StoreData :
          (/\ writeSecure(ArtifactPath, data)
           /\ storeResult'.outcome = "returned"
           /\ (ArtifactLoc \in DOMAIN disk => disk[ArtifactLoc].kind = "file"))
             => /\ ArtifactLoc \in DOMAIN disk'
                /\ disk'[ArtifactLoc].kind = "file"
                /\ disk'[ArtifactLoc].data = data
                /\ disk'[ArtifactLoc].mode = MODE_0600]_vars


(***************************************************************************)
(* C28: no writeSecure writes through a symbolic link: with a symbolic     *)
(* link at the path of the call, what the link points to is neither        *)
(* created nor modified.                                                   *)
(***************************************************************************)
C28_NoWriteThroughSymlink ==
    [][\A data \in StoreData :
          (/\ writeSecure(ArtifactPath, data)
           /\ ArtifactLoc \in DOMAIN disk
           /\ disk[ArtifactLoc].kind = "symlink")
             => OthersUnchanged(ArtifactLoc)]_vars


(***************************************************************************)
(* C29: cleanup never throws and removes nothing but regular files         *)
(* directly in the store root whose name begins with "callback-" and whose *)
(* modification time is more than one hour back: a symbolic link, a        *)
(* younger artifact, the PID file and everything outside the root stay as  *)
(* they are.                                                               *)
(***************************************************************************)
C29_CleanupRemovesOnlyStale ==
    [][cleanup =>
          /\ storeResult'.outcome = "returned"
          /\ DOMAIN disk' \subseteq DOMAIN disk
          /\ \A loc \in DOMAIN disk :
                \/ loc \in DOMAIN disk' /\ disk'[loc] = disk[loc]
                \/ /\ loc \notin DOMAIN disk'
                   /\ disk[loc].kind = "file"
                   /\ SubSeq(loc, 1, Len(loc) - 1) = Resolve(tempDir)
                   /\ loc[Len(loc)][1] = "callback-"
                   /\ now - disk[loc].mtime > ONE_HOUR_MS]_vars

\* a run of cleanup has removed the old artifact and left the PID file,
\* which is as old
C29_Witness ==
    /\ storeResult.op = "cleanup"
    /\ storeResult.logged = {ArtifactLoc}
    /\ ArtifactLoc \notin DOMAIN disk
    /\ PidLoc \in DOMAIN disk
    /\ disk[PidLoc].mtime = 0


(***************************************************************************)
(* Vocabulary of the properties of the URL: how the application that       *)
(* receives it reads it                                                    *)
(***************************************************************************)
\* the pieces that separate, or that encodeURIComponent escapes
ReservedPieces == {":", "/", "?", "=", "&", " ", "%"}

DecodeChar(c) ==
    CASE c = "%3A" -> ":"
      [] c = "%2F" -> "/"
      [] c = "%3F" -> "?"
      [] c = "%3D" -> "="
      [] c = "%26" -> "&"
      [] c = "%20" -> " "
      [] c = "%25" -> "%"
      [] OTHER -> c

Decoded(text) == [i \in 1..Len(text) |-> DecodeChar(text[i])]

\* the index of the first piece equal to c, 0 when there is none
RECURSIVE IndexOf(_, _)
IndexOf(text, c) ==
    IF text = <<>> THEN 0
    ELSE IF text[1] = c THEN 1
    ELSE LET i == IndexOf(Tail(text), c) IN IF i = 0 THEN 0 ELSE i + 1

\* what follows the first "?"
QueryOf(url) ==
    LET i == IndexOf(url, "?")
    IN IF i = 0 THEN <<>> ELSE SubSeq(url, i + 1, Len(url))

\* the parts between the "&"
RECURSIVE SplitOn(_, _)
SplitOn(text, c) ==
    LET i == IndexOf(text, c)
    IN IF text = <<>> THEN <<>>
       ELSE IF i = 0 THEN <<text>>
       ELSE <<SubSeq(text, 1, i - 1)>> \o SplitOn(SubSeq(text, i + 1, Len(text)), c)

\* the parameters of a URL: each part's key and what follows its first "="
QueryPairs(url) ==
    LET parts == SplitOn(QueryOf(url), "&")
    IN [i \in 1..Len(parts) |->
           LET e == IndexOf(parts[i], "=")
           IN IF e = 0
              THEN [key |-> parts[i], value |-> <<>>]
              ELSE [key |-> SubSeq(parts[i], 1, e - 1),
                    value |-> SubSeq(parts[i], e + 1, Len(parts[i]))]]

\* the parameters of a URL that have this key
WithKey(url, key) ==
    {i \in 1..Len(QueryPairs(url)) : QueryPairs(url)[i].key = <<key>>}

\* the URL carries each of the caller's values percent-encoded, under its key
CarriesParams(url, ps) ==
    \A i \in 1..Len(ps) :
        \E j \in WithKey(url, ps[i][1]) :
            LET value == QueryPairs(url)[j].value
            IN /\ \A k \in 1..Len(value) : value[k] \notin ReservedPieces
               /\ Decoded(value) = ps[i][2]

\* the URL has exactly one parameter with this key, and it is the address
\* of this kind with this callbackId
OneAddress(url, kind, id) ==
    /\ Cardinality(WithKey(url, kind)) = 1
    /\ \A j \in WithKey(url, kind) :
          Decoded(QueryPairs(url)[j].value) =
              <<"ulysses-mcp-callback", ":", "/", "/", kind, "?", "callbackId", "=",
                id[1], "-", ToString(id[2]), "-", ToString(id[3])>>

(***************************************************************************)
(* C31: the URL built for an action that needs a callback has exactly one  *)
(* x-success and one x-error address, both with the callbackId that the    *)
(* same step registers in pendingCallbacks for the call, and carries every *)
(* value of params percent-encoded; the URL built for any other action has *)
(* neither address and carries the values the same way.                    *)
(***************************************************************************)
C31_UrlCarriesAddresses ==
    [][\A r \in Req :
          (openedText'[r] # openedText[r] /\ openedText'[r] # NoText)
             => /\ CarriesParams(openedText'[r], params[r])
                /\ IF reqAction'[r] = "authorize"
                   THEN /\ callbackId'[r] \in DOMAIN pendingCallbacks'
                        /\ pendingCallbacks'[callbackId'[r]] = r
                        /\ OneAddress(openedText'[r], "x-success", callbackId'[r])
                        /\ OneAddress(openedText'[r], "x-error", callbackId'[r])
                   ELSE /\ WithKey(openedText'[r], "x-success") = {}
                        /\ WithKey(openedText'[r], "x-error") = {}]_vars

\* a URL with addresses has been built for a call whose text is itself the
\* text of an x-success parameter
C31_Witness ==
    \E r \in Req :
        /\ reqAction[r] = "authorize"
        /\ openedText[r] # NoText
        /\ params[r] # NoParams
        /\ params[r][1][2] = AddressValue
        /\ callbackId[r] \in DOMAIN pendingCallbacks


(***************************************************************************)
(* Vocabulary of the properties of the validators                          *)
(***************************************************************************)
ValidatorCalled(fn) == validatorIn.fn = fn /\ validatorOut # NoValidatorCall

\* nothing is left of the text once the white space is taken away
Blank(t) == \A i \in 1..Len(t) : t[i] \in WhiteSpace

\* t is what is left of whole without the white space at its two ends
TrimmedFrom(t, whole) ==
    /\ t # <<>>
    /\ t[1] \notin WhiteSpace
    /\ t[Len(t)] \notin WhiteSpace
    /\ \E i \in 1..Len(whole) :
          /\ Blank(SubSeq(whole, 1, i - 1))
          /\ SubSeq(whole, i, i + Len(t) - 1) = t
          /\ Blank(SubSeq(whole, i + Len(t), Len(whole)))

\* a call of a validator changes nothing but what records its result
ValidatorIsPure ==
    Validate =>
        UNCHANGED <<now, nextReq, pc, reqAction, callbackId, timeoutActive,
                    timeoutDue, pollActive, pollDue, promise, result,
                    pendingCallbacks, files, envWrites, opened, rateLimitState,
                    helperVars, storeVars, urlVars, httpVars, validatorIn, burstVars>>

(***************************************************************************)
(* C32: validateRequired throws for undefined, for null and for a value    *)
(* whose string form is empty once trimmed; for every other value it       *)
(* returns the string form without the white space at its two ends, which  *)
(* is not empty; the call changes nothing else.                            *)
(***************************************************************************)
C32_ValidateRequired ==
    /\ [](ValidatorCalled("validateRequired") =>
            LET v == validatorIn.value
            IN IF v.type \in {"undefined", "null"} \/ Blank(StringOf(v))
               THEN /\ validatorOut.outcome = "threw"
                    /\ validatorOut.error.code = "InvalidParams"
               ELSE /\ validatorOut.outcome = "returned"
                    /\ validatorOut.value.type = "string"
                    /\ TrimmedFrom(validatorOut.value.text, StringOf(v)))
    /\ [][ValidatorIsPure]_vars

\* a string with white space on both sides came back without it
C32_Witness ==
    /\ ValidatorCalled("validateRequired")
    /\ validatorIn.value = JsString(<<" ", "a", " ">>)
    /\ validatorOut.outcome = "returned"
    /\ validatorOut.value = JsString(<<"a">>)

(***************************************************************************)
(* C33: validateEnum returns undefined for undefined, returns the value    *)
(* as it is when it is exactly one of the allowed values, and throws for   *)
(* every other value, one that differs from an allowed value only in the   *)
(* case of a letter included.                                              *)
(***************************************************************************)
C33_ValidateEnum ==
    ValidatorCalled("validateEnum") =>
        LET v == validatorIn.value
        IN IF v.type = "undefined"
           THEN validatorOut.outcome = "returned" /\ validatorOut.value = JsUndefined
           ELSE IF v.type = "string" /\ v.text \in {<<"a">>, <<"a", "A">>}
           THEN validatorOut.outcome = "returned" /\ validatorOut.value = v
           ELSE /\ validatorOut.outcome = "threw"
                /\ validatorOut.error.code = "InvalidParams"

\* a value that is an allowed one but for the case has been refused
C33_Witness ==
    /\ ValidatorCalled("validateEnum")
    /\ validatorIn.value = JsString(<<"A">>)
    /\ validatorOut.outcome = "threw"

(***************************************************************************)
(* C34: validateLength throws exactly when the value is longer than max:   *)
(* a value as long as max, and the empty string, come back as they are; a  *)
(* value one longer than max is refused.                                   *)
(***************************************************************************)
C34_ValidateLength ==
    ValidatorCalled("validateLength") =>
        LET v == validatorIn.value
        IN IF Len(v.text) > validatorIn.max
           THEN /\ validatorOut.outcome = "threw"
                /\ validatorOut.error.code = "InvalidParams"
           ELSE validatorOut.outcome = "returned" /\ validatorOut.value = v

\* a value exactly as long as max came back
C34_Witness ==
    /\ ValidatorCalled("validateLength")
    /\ validatorIn.max = 2
    /\ Len(validatorIn.value.text) = 2
    /\ validatorOut.outcome = "returned"

(***************************************************************************)
(* C35: in the HTTP-callback variant, once the promise of a call has been  *)
(* settled (the matching callback was received, the timeout fired, or the  *)
(* server could not listen), the server of the call is closed, and neither *)
(* callbackServers nor pendingCallbacks holds an entry for the call.       *)
(***************************************************************************)
\* callbackServers holds the server of call r
ServerStored(r) == \E port \in DOMAIN callbackServers : callbackServers[port] = r

\* pendingCallbacks holds the entry of call r
EntryStored(r) ==
    /\ callbackId[r] \in DOMAIN pendingCallbacks
    /\ pendingCallbacks[callbackId[r]] = r

C35_ServerGoneAfterTerminal ==
    \A r \in Req :
        Settled(promise[r]) =>
            /\ r \notin serverOpen
            /\ ~ServerStored(r)
            /\ ~EntryStored(r)

\* with pairwise distinct callbackIds the statement of C35 holds
Lemma_C35_DistinctIds == DistinctIds => C35_ServerGoneAfterTerminal

\* both ways of ending have happened: one call was answered, one timed out
Lemma_C35_Witness ==
    \E r1, r2 \in Req :
        /\ DistinctIds
        /\ promise[r1].state = "resolved"
        /\ promise[r2] = Rejected(TimeoutError)
        /\ serverOpen = {}
        /\ callbackServers = EmptyMap

(***************************************************************************)
(* C36: a call that needs a response goes through its steps in order.  It  *)
(* enters ensureHelperAppRunning only after the whitelist and the          *)
(* rate-limit check have let it pass, with no callbackId, no registration  *)
(* and no URL yet; the step that hands its URL to `open` comes after       *)
(* ensureHelperAppRunning and is the one that makes the callbackId, arms   *)
(* the timeout and the poll and registers them under that callbackId, so   *)
(* that the URL never leaves before its callbackId is registered.  A call  *)
(* the whitelist refuses gets none of these.                               *)
(***************************************************************************)
\* nothing has been allocated for call r
NothingAllocated(r) ==
    /\ callbackId[r] = NoId
    /\ promise[r] = NoPromise
    /\ ~timeoutActive[r]
    /\ ~pollActive[r]
    /\ opened[r] = NoUrl
    /\ openedText[r] = NoText

\* call r is registered under the callbackId its URL carries, timers armed
RegisteredAsOpened(r) ==
    /\ callbackId[r] # NoId
    /\ opened[r].xSuccess = callbackId[r]
    /\ opened[r].xError = callbackId[r]
    /\ callbackId[r] \in DOMAIN pendingCallbacks
    /\ pendingCallbacks[callbackId[r]] = r
    /\ promise[r] = PendingPromise
    /\ timeoutActive[r]
    /\ pollActive[r]

C36_StepsInOrder ==
    [][\A r \in Req :
          /\ (pc[r] # "helper" /\ pc'[r] = "helper") =>
                /\ pc[r] = "idle"
                /\ reqAction'[r] \in ALLOWED_ACTIONS \cap CALLBACK_ACTIONS
                /\ ~RateLimitThrows(rateLimitState, reqAction'[r], now)
                /\ NothingAllocated(r)'
          /\ (reqAction'[r] \in CALLBACK_ACTIONS /\ opened'[r] # opened[r]) =>
                /\ pc[r] = "helper"
                /\ NothingAllocated(r)
                /\ pc'[r] = "opening"
                /\ RegisteredAsOpened(r)'
          /\ (pc[r] = "idle" /\ reqAction'[r] \notin ALLOWED_ACTIONS
                 /\ reqAction'[r] # "none") =>
                /\ pc'[r] = "done"
                /\ NothingAllocated(r)'
      ]_vars

\* the URL of one call is out with its callbackId registered while another
\* call is still in ensureHelperAppRunning
C36_Witness ==
    \E r1, r2 \in Req :
        /\ pc[r1] = "opening"
        /\ RegisteredAsOpened(r1)
        /\ pc[r2] = "helper"
        /\ NothingAllocated(r2)

(***************************************************************************)
(* C37: for every destructive action and every interval of 60000 ms, the   *)
(* number of calls checkRateLimit let pass at times within the interval is *)
(* at most 20, twice MAX_DESTRUCTIVE_OPS_PER_MINUTE.                       *)
(***************************************************************************)
RECURSIVE SumOf(_, _)
SumOf(f, keys) ==
    IF keys = {} THEN 0
    ELSE LET k == CHOOSE x \in keys : TRUE
         IN f[k] + SumOf(f, keys \ {k})

\* the calls of the action let pass at the times from..from + width
AcceptedWithin(action, from, width) ==
    SumOf(acceptedLog,
          {k \in DOMAIN acceptedLog :
              k[1] = action /\ k[2] >= from /\ k[2] <= from + width})

\* every interval that holds a call lies within one that begins at a call
C37_BurstAtMostTwiceCeiling ==
    \A k \in DOMAIN acceptedLog :
        AcceptedWithin(k[1], k[2], RATE_LIMIT_WINDOW_MS)
            <= 2 * MAX_DESTRUCTIVE_OPS_PER_MINUTE

\* the end of one window and the start of the next: more calls than the
\* ceiling were let pass within two milliseconds
C37_Witness ==
    \E k \in DOMAIN acceptedLog :
        /\ AcceptedWithin(k[1], k[2], 1) > MAX_DESTRUCTIVE_OPS_PER_MINUTE
        /\ AcceptedWithin(k[1], k[2], 1) = 2 * MAX_DESTRUCTIVE_OPS_PER_MINUTE - 1

(***************************************************************************)
(* C38: a destructive call that checkRateLimit let pass has taken a slot   *)
(* of the window of its action, and keeps it when `open` fails: the step   *)
(* in which the call ends with the error of `open` leaves rateLimitState   *)
(* as it was, the count not decremented and the window not moved.          *)
(***************************************************************************)
\* call r was let pass by checkRateLimit
Accepted(r) ==
    /\ pc[r] \in {"opening", "done"}
    /\ reqAction[r] \in ALLOWED_ACTIONS
    /\ result[r] # Threw(RateLimitError)

\* `open` of call r failed
OpenHasFailed(r) ==
    /\ pc[r] = "done"
    /\ result[r].kind = "threw"
    /\ result[r].error.code = "InternalError"

C38_FailedOpenKeepsSlot ==
    /\ [](\A r \in Req :
             (Accepted(r) /\ reqAction[r] \in DESTRUCTIVE_ACTIONS) =>
                /\ reqAction[r] \in DOMAIN rateLimitState
                /\ rateLimitState[reqAction[r]].count >= 1)
    /\ [][\A r \in Req :
             (pc[r] = "opening" /\ OpenHasFailed(r)') =>
                rateLimitState' = rateLimitState]_vars

\* `open` of a destructive call failed, and with that call the window of
\* its action is used up
C38_Witness ==
    \E r \in Req :
        /\ reqAction[r] \in DESTRUCTIVE_ACTIONS
        /\ OpenHasFailed(r)
        /\ now <= rateLimitState[reqAction[r]].resetTime
        /\ rateLimitState[reqAction[r]].count = MAX_DESTRUCTIVE_OPS_PER_MINUTE

(***************************************************************************)
(* C39: the promise of a pending call is resolved or rejected from an      *)
(* artifact only if the callbackId field of that artifact is the           *)
(* callbackId of the call; an artifact at the callback path whose field    *)
(* names another callbackId settles nothing.                               *)
(***************************************************************************)
\* the promise of call r is settled in this step, and not by the timeout
SettledFromArtifact(r) ==
    /\ promise[r].state = "pending"
    /\ Settled(promise'[r])
    /\ promise'[r] # Rejected(TimeoutError)

C39_SettledOnlyByOwnArtifact ==
    [][\A r \in Req :
          SettledFromArtifact(r) =>
             /\ callbackId[r] \in DOMAIN files
             /\ files[callbackId[r]].content.callbackId = callbackId[r]]_vars

\* what holds instead: the poll tick settles the call from whatever regular
\* artifact is at its callback path, whichever callbackId the field names
Lemma_C39_SettledByPath ==
    [][\A r \in Req :
          SettledFromArtifact(r) =>
             /\ callbackId[r] \in DOMAIN files
             /\ promise'[r] = PollSettlement(files[callbackId[r]].content)]_vars

(***************************************************************************)
(* C40: when ensureHelperAppRunning throws, the call ends with an          *)
(* McpError of code InternalError, and nothing has been or will be         *)
(* allocated for it: no callbackId, no promise, no registration, no        *)
(* timeout, no poll, no URL handed to `open`; what the other calls hold    *)
(* stays as it is.                                                         *)
(***************************************************************************)
\* call r ended because ensureHelperAppRunning threw
HelperHasFailed(r) == pc[r] = "done" /\ result[r] = Threw(HelperStartError)

C40_HelperFailureAllocatesNothing ==
    /\ [][\A r \in Req :
             (pc[r] = "helper" /\ pc'[r] = "done") =>
                /\ result'[r].kind = "threw"
                /\ result'[r].error.mcp
                /\ result'[r].error.code = "InternalError"
                /\ NothingAllocated(r)'
                /\ UNCHANGED <<callbackId, promise, pendingCallbacks, timeoutActive,
                               pollActive, opened, openedText, files>>]_vars
    /\ [](\A r \in Req : HelperHasFailed(r) => NothingAllocated(r))

\* one call ended with the helper's failure and holds nothing, while another
\* call has its callbackId registered and its URL out
C40_Witness ==
    \E r1, r2 \in Req :
        /\ HelperHasFailed(r1)
        /\ NothingAllocated(r1)
        /\ RegisteredAsOpened(r2)

====
